---- MODULE Spec2Model ----
(***************************************************************************)
(* Batch generators of pyannote.generators: the signature-driven batch     *)
(* assembler (BaseBatchGenerator), the file-based driver                   *)
(* (FileBasedBatchGenerator, forever) and the fragment samplers' shapes.   *)
(***************************************************************************)
EXTENDS Integers, Sequences, FiniteSets, TLC

\* ------------------------------------------------------------------ bounds
MaxStream == 5        \* longest stream fed to iter_batches
MaxBatch == 2         \* largest self.batch_size
MaxFiles == 3         \* longest finite file list
MaxFrags == 2         \* most fragments one file yields
MaxLoopFiles == 2     \* longest file list looped over by forever
MaxAdds == 2          \* most fragments added to one accumulator
MaxSegs == 3          \* number of tracks of the sampled annotation
MaxYields == 2        \* most fragments taken from one sampler
MaxItems == 3         \* most items of an iterator wrapped by BackgroundGenerator
MaxPrefetch == 2      \* largest max_prefetch
MaxY == 3             \* longest label array given to random_label_index
MaxLabels == 3        \* labels of y are drawn from 1..MaxLabels
MaxPerLabel == 2      \* largest per_label
MaxOut == 5           \* most indices taken from random_label_index
MaxTracks == 3        \* segments of the annotation given to the triplet samplers
MaxTrackLabels == 2   \* its labels are drawn from 1..MaxTrackLabels
MaxQuota == 2         \* largest per_label of the triplet samplers
MaxTime == 3          \* source segments lie within [0, MaxTime]
MaxSources == 2       \* most segments of a source timeline
MaxWin == 3           \* largest duration of a sliding or random segment
MaxStep == 2          \* largest step of the sliding window
MaxFrames == 4        \* most frames of the source given to bufferize
MaxNodes == 2         \* most nodes of a signature tree handed to _check_signature

\* ------------------------------------------------- Python values as trees
\* Every Python object of interest is one record shape:
\*   kind  "terminal" (dict with a 'type' key), "dict" (dict without 'type'),
\*         "list", "tuple", "value" (any non-container object),
\*         "ref" (a list object on the heap, v is its address),
\*         "ndarray" (a packed leaf), "EndOfBatch" (the singleton sentinel)
Node(k, t, val, sh, ks, xs) ==
    [kind |-> k, type |-> t, v |-> val, shape |-> sh, keys |-> ks, items |-> xs]

Terminal(t) == Node("terminal", t, 0, <<>>, <<>>, <<>>)
PyList(xs) == Node("list", "", 0, <<>>, <<>>, xs)
PyTuple(xs) == Node("tuple", "", 0, <<>>, <<>>, xs)
PyDict(ks, xs) == Node("dict", "", 0, <<>>, ks, xs)
Value(val) == Node("value", "", val, <<>>, <<>>, <<>>)
Array(val, sh) == Node("value", "", val, sh, <<>>, <<>>)
Ref(a) == Node("ref", "", a, <<>>, <<>>, <<>>)
EndOfBatch == Node("EndOfBatch", "", 0, <<>>, <<>>, <<>>)

IsSeqKind(x) == x.kind \in {"list", "tuple"}

\* Index of key k in the key sequence ks (0 when absent).
KeyIndex(ks, k) ==
    IF \E i \in 1..Len(ks) : ks[i] = k
    THEN CHOOSE i \in 1..Len(ks) : ks[i] = k
    ELSE 0

Min(a, b) == IF a < b THEN a ELSE b

\* What iterating a Python object gives: the items of a list or tuple, the
\* keys of a dict.
IterItems(x) ==
    IF x.kind = "dict"
    THEN [i \in 1..Len(x.keys) |-> Node("value", x.keys[i], 0, <<>>, <<>>, <<>>)]
    ELSE x.items

\* --------------------------------------------------------- _batch_signature
\* Mutant: the batch signature of a tuple is built as a list.
RECURSIVE BatchSignatureAsList(_)
BatchSignatureAsList(signature_in) ==
    IF signature_in.kind = "terminal"
    THEN Terminal("batch")
    ELSE [signature_in EXCEPT
            !.kind = IF @ = "tuple" THEN "list" ELSE @,
            !.items = [i \in 1..Len(signature_in.items) |->
                          BatchSignatureAsList(signature_in.items[i])]]

RECURSIVE _batch_signature(_)
_batch_signature(signature_in) ==
    IF signature_in.kind = "terminal"
    THEN Terminal("batch")
    ELSE [signature_in EXCEPT
            !.items = [i \in 1..Len(signature_in.items) |->
                          _batch_signature(signature_in.items[i])]]

\* --------------------------------------------------------------- _batch_new
RECURSIVE NumLeaves(_), LeavesBefore(_, _)
NumLeaves(signature) ==
    IF signature.kind = "terminal" THEN 1
    ELSE LeavesBefore(signature.items, Len(signature.items) + 1)

\* Number of terminal leaves in items[1..i-1].
LeavesBefore(items, i) ==
    IF i <= 1 THEN 0
    ELSE LeavesBefore(items, i - 1) + NumLeaves(items[i - 1])

\* The accumulator tree for signature_out, its terminal leaves being fresh
\* list objects at heap addresses base+1, base+2, ... in traversal order.
RECURSIVE BatchNewFrom(_, _)
BatchNewFrom(signature_out, base) ==
    IF signature_out.kind = "terminal"
    THEN Ref(base + 1)
    ELSE [signature_out EXCEPT
            !.items = [i \in 1..Len(signature_out.items) |->
                          BatchNewFrom(signature_out.items[i],
                                       base + LeavesBefore(signature_out.items, i))]]

\* Mutant: one list object shared by all the leaves ([[]] * n).
RECURSIVE BatchNewShared(_)
BatchNewShared(signature_out) ==
    IF signature_out.kind = "terminal"
    THEN Ref(1)
    ELSE [signature_out EXCEPT
            !.items = [i \in 1..Len(signature_out.items) |->
                          BatchNewShared(signature_out.items[i])]]

_batch_new(signature_out) == BatchNewFrom(signature_out, 0)

\* The heap right after _batch_new: every new list is empty.
NewHeap(signature_out) == [a \in 1..NumLeaves(signature_out) |-> <<>>]

\* --------------------------------------------------------------- _batch_add
\* process_<type> hooks: BaseBatchGenerator defines none, so _passthrough.
_passthrough(x) == x

\* Mutant: a zip that stops one component early.
ZipShort(n_fragment, n_signature) == Min(n_fragment, n_signature) - 1

\* zip stops at the shortest of its arguments, silently.
ZipLength(n_fragment, n_signature) == Min(n_fragment, n_signature)

\* _batch_add(fragment, signature_in, signature_out, batch): the heap after
\* the call and whether an exception was raised (the appends made before the
\* exception stay).  signature_in of kind "none" is the signature_in=None call.
RECURSIVE _batch_add(_, _, _, _, _), BatchAddZip(_, _, _, _, _, _, _), BatchAddKeys(_, _, _, _, _, _)
_batch_add(fragment, signature_in, signature_out, batch, h) ==
    LET by == IF signature_in.kind = "none" THEN signature_out ELSE signature_in
    IN  IF IsSeqKind(by)
        THEN IF fragment.kind \notin {"list", "tuple", "dict"}
             THEN [heap |-> h, err |-> TRUE]            \* zip of a non-iterable
             ELSE BatchAddZip(IterItems(fragment), signature_in, signature_out,
                              batch, h, 1,
                              Min(ZipLength(Len(IterItems(fragment)), Len(by.items)),
                                  Min(Len(signature_out.items), Len(batch.items))))
        ELSE IF by.kind = "dict"
        THEN BatchAddKeys(fragment, signature_in, signature_out, batch, h, 1)
        ELSE IF signature_in.kind = "none"
        THEN [heap |-> [h EXCEPT ![batch.v] = Append(@, fragment)], err |-> FALSE]
        ELSE _batch_add(_passthrough(fragment), Node("none", "", 0, <<>>, <<>>, <<>>),
                        signature_out, batch, h)

\* for f, si, so, b in zip(fragment, signature_in, signature_out, batch)
BatchAddZip(fs, signature_in, signature_out, batch, h, i, n) ==
    IF i > n THEN [heap |-> h, err |-> FALSE]
    ELSE LET si == IF signature_in.kind = "none" THEN signature_in
                   ELSE signature_in.items[i]
             r == _batch_add(fs[i], si, signature_out.items[i], batch.items[i], h)
         IN  IF r.err THEN r
             ELSE BatchAddZip(fs, signature_in, signature_out, batch, r.heap, i + 1, n)

\* for key in signature_out: f = fragment[key] ...
BatchAddKeys(fragment, signature_in, signature_out, batch, h, i) ==
    IF i > Len(signature_out.keys) THEN [heap |-> h, err |-> FALSE]
    ELSE LET key == signature_out.keys[i]
             j == KeyIndex(fragment.keys, key)
         IN  IF fragment.kind # "dict" \/ j = 0
             THEN [heap |-> h, err |-> TRUE]            \* TypeError / KeyError
             ELSE LET si == IF signature_in.kind = "none" THEN signature_in
                            ELSE signature_in.items[KeyIndex(signature_in.keys, key)]
                      r == _batch_add(fragment.items[j], si, signature_out.items[i],
                                      batch.items[KeyIndex(batch.keys, key)], h)
                  IN  IF r.err THEN r
                      ELSE BatchAddKeys(fragment, signature_in, signature_out,
                                        batch, r.heap, i + 1)

\* -------------------------------------------------------------- _batch_pack
\* Shape of the array numpy makes of a Python object.
RECURSIVE ShapeOf(_)
ShapeOf(x) ==
    IF x.kind \in {"value", "EndOfBatch"} THEN x.shape   \* any object: 0-d
    ELSE <<Len(IterItems(x))>> \o
         (IF Len(IterItems(x)) = 0 THEN <<>> ELSE ShapeOf(IterItems(x)[1]))

\* numpy.atleast_2d
AtLeast2d(sh) ==
    IF Len(sh) = 0 THEN <<1, 1>> ELSE IF Len(sh) = 1 THEN <<1, sh[1]>> ELSE sh

RECURSIVE SumFirst(_, _)
SumFirst(shapes, i) == IF i = 0 THEN 0 ELSE SumFirst(shapes, i - 1) + shapes[i][1]

\* pack_batch: np.stack(batches), and np.vstack(batches) when that raises
\* ValueError; both raise ValueError on an empty list.
pack_batch(batches) ==
    LET shapes == [i \in 1..Len(batches) |-> ShapeOf(batches[i])]
        two == [i \in 1..Len(batches) |-> AtLeast2d(shapes[i])]
    IN  IF Len(batches) = 0
        THEN [err |-> TRUE, value |-> Value(0)]
        ELSE IF \A i \in 1..Len(shapes) : shapes[i] = shapes[1]
        THEN [err |-> FALSE,
              value |-> Node("ndarray", "stack", 0, <<Len(batches)>> \o shapes[1],
                             <<>>, batches)]
        ELSE IF \A i \in 1..Len(two) : Tail(two[i]) = Tail(two[1])
        THEN [err |-> FALSE,
              value |-> Node("ndarray", "vstack", 0,
                             <<SumFirst(two, Len(two))>> \o Tail(two[1]),
                             <<>>, batches)]
        ELSE [err |-> TRUE, value |-> Value(0)]

\* _batch_pack(signature_out, batch): the packed tree and whether a pack_
\* function raised.  Every terminal of signature_out has type 'batch'.
RECURSIVE _batch_pack(_, _, _)
_batch_pack(signature_out, batch, h) ==
    IF signature_out.kind = "terminal"
    THEN pack_batch(h[batch.v])
    ELSE LET n == IF IsSeqKind(signature_out)
                  THEN Min(Len(signature_out.items), Len(batch.items))
                  ELSE Len(signature_out.items)
             sub == [i \in 1..n |->
                        _batch_pack(signature_out.items[i],
                                    IF IsSeqKind(signature_out) THEN batch.items[i]
                                    ELSE batch.items[KeyIndex(batch.keys,
                                                              signature_out.keys[i])],
                                    h)]
         IN  [err |-> \E i \in 1..n : sub[i].err,
              value |-> [signature_out EXCEPT !.items = [i \in 1..n |-> sub[i].value]]]

\* postprocess_<type> hooks: none defined, so the batch is returned as packed.
postprocess(batch) == _passthrough(batch)

\* ------------------------------------------------- reading trees (helpers)
\* The terminal leaves of a tree (an accumulator tree or a packed batch), in
\* traversal order.
RECURSIVE Leaves(_), LeavesOfItems(_, _)
Leaves(x) ==
    IF x.kind \in {"list", "tuple", "dict"}
    THEN LeavesOfItems(x.items, Len(x.items))
    ELSE <<x>>

LeavesOfItems(items, i) ==
    IF i = 0 THEN <<>> ELSE LeavesOfItems(items, i - 1) \o Leaves(items[i])

\* Same container kinds, keys and lengths.
RECURSIVE SameShape(_, _)
SameShape(x, signature) ==
    IF signature.kind = "terminal"
    THEN x.kind \notin {"list", "tuple", "dict"}
    ELSE /\ x.kind = signature.kind
         /\ x.keys = signature.keys
         /\ Len(x.items) = Len(signature.items)
         /\ \A i \in 1..Len(x.items) : SameShape(x.items[i], signature.items[i])

\* The fragment matching a signature whose every terminal value is Value(id).
RECURSIVE MkFragment(_, _)
MkFragment(signature, id) ==
    IF signature.kind = "terminal"
    THEN Value(id)
    ELSE [signature EXCEPT
            !.items = [i \in 1..Len(signature.items) |->
                          MkFragment(signature.items[i], id)]]

\* The ids held by an accumulated or packed leaf.
Ids(values) == [i \in 1..Len(values) |-> values[i].v]

Range(lo, hi) == [i \in 1..(IF hi >= lo THEN hi - lo + 1 ELSE 0) |-> lo + i - 1]

\* ------------------------------------------------------------------- state
VARIABLES
    signature_in,     \* self.generator.signature()
    self_batch_size,  \* self.batch_size
    self_incomplete,  \* self.incomplete
    generator,        \* the items the wrapped generator yields to iter_batches
    pos,              \* number of items of generator consumed so far
    batch_size,       \* the local fragment count
    batch_,           \* self.batch_: the accumulator tree, leaves are heap refs
    heap,             \* the list objects the leaves of batch_ refer to
    yielded,          \* the batches handed to the caller so far, in order
    pc,               \* position of the running generator function
    files,            \* file_generator: the file records passed to __call__
    infinite,         \* __call__ arguments
    robust,
    incomplete,
    saved,            \* forever: the saved (and shuffled in place) list
    fidx,             \* number of files taken from the file list / current pass
    current_file,
    fpos,             \* number of fragments of current_file consumed
    warned,           \* uris of the warnings recorded by warnings.warn
    visited,          \* the uris visited so far (in the current pass of forever)
    prev_order,       \* forever: the order of the previous pass (<<>> if none)
    pass_parity,      \* forever: parity of the number of passes begun
    given,            \* the fragments handed to _batch_add since _batch_new
    sampler,          \* a sampler of fragment.py and its options
    sample,           \* the fragment the sampler yielded last
    bg_generator,     \* BackgroundGenerator.generator: what its next() gives, in order
    bg_infinite,      \* whether the wrapped generator is endless
    bg_taken,         \* number of items run() has pulled from the generator
    max_prefetch,     \* the maxsize of queue_
    queue_,           \* BackgroundGenerator.queue_
    run_pc,           \* position of the thread in run()
    run_item,         \* the local `item` of run()
    next_pc,          \* position of the consumer in next()
    delivered,        \* the items next() returned, in order
    y_,               \* random_label_index: the argument y
    per_label,        \* arguments per_label, repeat, return_label
    repeat,
    return_label,
    shuffled_sequences, \* label -> its (shuffled) sequence of indices
    consumed,         \* label -> number of its indices consumed
    previous_label,   \* 0 stands for None
    round_order,      \* the labels of the current round, as drawn
    k_,               \* number of labels of the current round already taken
    label_,           \* the loop variable `label`
    left,             \* iterations left in `for _ in range(per_this_label)`
    index_pc,         \* position in random_label_index
    out,              \* the outputs so far: index and, if yielded, label
    round_out,        \* the labels output in the current round
    skipped,          \* the label the current round skipped (0 if none)
    annotation,       \* from_annotation: segment -> label of its track (0: no track)
    t_sampler,        \* the triplet or pair sampler in use
    t_per_label,      \* self.per_label
    t_duration,       \* self.duration
    t_labels,         \* annotation.labels() of the annotation iterated over
    t_li,             \* number of labels taken by `for label in ...`
    t_count,          \* iterations done of `for _ in range(self.per_label)`
    t_pc,             \* position in iter_triplets / iter_pairs
    t_last,           \* the triplet yielded last (<<>> if none)
    t_anchors,        \* the label of the anchor of every triplet yielded
    t_pair,           \* the pair yielded last, and the one before
    t_prev_pair,
    t_tags,           \* the relevance of every pair yielded
    s_sampler,        \* "SlidingSegments" or "RandomSegments"
    s_kind,           \* type of `source`: float, Segment, Timeline, Annotation
    s_segments,       \* the segments of `source`, in timeline order
    s_duration,       \* self.duration
    s_step,           \* self.step
    s_min_duration,   \* self.min_duration
    s_variable,       \* self.variable_length_
    s_kept,           \* RandomSegments: the positions of the segments kept
    s_si,             \* position of the current segment in `segments`
    s_wi,             \* number of windows taken from the SlidingWindow
    s_pc,             \* position in iter_segments
    s_out,            \* the segments yielded, each with the position of its source
    b_frames,         \* bufferize: number of (frame, data) items of `source`
    b_sliding_window, \* source.sliding_window: duration and step of the frames
    b_target,         \* target: duration, step and end of the sliding window
    generator_stop,   \* StopIteration raised in a generator becomes RuntimeError
    buffer_size,
    frame_buffer,
    data_buffer,
    b_taken,          \* items taken from `source`
    b_i,              \* windows taken from `target`
    b_incomplete,     \* the local `incomplete`
    b_pc,             \* position in bufferize
    b_out,            \* the items yielded
    c_sign_out,       \* _check_signature: the argument sign_out
    c_result,         \* the exception it raised ("" if none)
    c_pc              \* "new", then "constructed", "checked" or "raised"

batchVars == <<signature_in, self_batch_size, batch_size, batch_, heap, yielded, pc>>
baseVars == <<self_incomplete, generator, pos>>
fileVars == <<files, infinite, robust, incomplete, saved, fidx, current_file,
              fpos, warned, visited, prev_order, pass_parity>>
batchVars_but_pc == <<signature_in, self_batch_size, batch_size, batch_, heap, yielded>>
otherVars == <<given, sampler, sample>>
threadVars == <<bg_generator, bg_infinite, bg_taken, max_prefetch, queue_, run_pc,
                run_item, next_pc, delivered>>
indexVars == <<y_, per_label, repeat, return_label, shuffled_sequences, consumed,
               previous_label, round_order, k_, label_, left, index_pc, out,
               round_out, skipped>>
tripletVars == <<annotation, t_sampler, t_per_label, t_duration, t_labels, t_li,
                 t_count, t_pc, t_last, t_anchors, t_pair, t_prev_pair, t_tags>>
segVars == <<s_sampler, s_kind, s_segments, s_duration, s_step, s_min_duration,
             s_variable, s_kept, s_si, s_wi, s_pc, s_out>>
bufVars == <<b_frames, b_sliding_window, b_target, generator_stop, buffer_size,
             frame_buffer, data_buffer, b_taken, b_i, b_incomplete, b_pc, b_out>>
checkVars == <<c_sign_out, c_result, c_pc>>
lateVars == <<segVars, bufVars, checkVars>>
restVars == <<threadVars, indexVars, tripletVars, lateVars>>
vars == <<batchVars, baseVars, fileVars, otherVars, restVars>>

None == Node("None", "", 0, <<>>, <<>>, <<>>)

ThreadIdle ==
    /\ bg_generator = <<>> /\ bg_infinite = FALSE /\ bg_taken = 0
    /\ max_prefetch = 0 /\ queue_ = <<>> /\ run_pc = "off" /\ run_item = None
    /\ next_pc = "off" /\ delivered = <<>>
IndexIdle ==
    /\ y_ = <<>> /\ per_label = 0 /\ repeat = FALSE /\ return_label = FALSE
    /\ shuffled_sequences = <<>> /\ consumed = <<>> /\ previous_label = 0
    /\ round_order = <<>> /\ k_ = 0 /\ label_ = 0 /\ left = 0 /\ index_pc = "off"
    /\ out = <<>> /\ round_out = <<>> /\ skipped = 0
TripletIdle ==
    /\ annotation = <<>> /\ t_sampler = "" /\ t_per_label = 0 /\ t_duration = 0
    /\ t_labels = <<>> /\ t_li = 0 /\ t_count = 0 /\ t_pc = "off" /\ t_last = <<>>
    /\ t_anchors = <<>> /\ t_pair = <<>> /\ t_prev_pair = <<>> /\ t_tags = <<>>
SegIdle ==
    /\ s_sampler = "" /\ s_kind = "" /\ s_segments = <<>> /\ s_duration = 0
    /\ s_step = 0 /\ s_min_duration = 0 /\ s_variable = FALSE /\ s_kept = <<>>
    /\ s_si = 0 /\ s_wi = 0 /\ s_pc = "off" /\ s_out = <<>>
NoWindow == [duration |-> 0, step |-> 0, end |-> 0]
BufIdle ==
    /\ b_frames = 0 /\ b_sliding_window = NoWindow /\ b_target = NoWindow
    /\ generator_stop = FALSE /\ buffer_size = 0 /\ frame_buffer = <<>>
    /\ data_buffer = <<>> /\ b_taken = 0 /\ b_i = 0 /\ b_incomplete = FALSE
    /\ b_pc = "off" /\ b_out = <<>>
CheckIdle == c_sign_out = Value(0) /\ c_result = "" /\ c_pc = "off"
LateIdle == SegIdle /\ BufIdle /\ CheckIdle
RestIdle == ThreadIdle /\ IndexIdle /\ TripletIdle /\ LateIdle

NoSampler == [name |-> "", yield_label |-> FALSE, variable_length_ |-> FALSE]
OtherIdle == given = <<>> /\ sampler = NoSampler /\ sample = Value(0)

\* signature(): the output signature
signature == _batch_signature(signature_in)

\* The caller receives batch b.  In infinite mode only the latest batch is
\* kept, so that the state space stays finite.
Yield(b) == IF infinite THEN <<b>> ELSE Append(yielded, b)

NoFile == [uri |-> 0, n |-> 0, fails |-> FALSE, ends |-> {}]

\* Signatures the batch generators are run with.
SegmentLabel == PyTuple(<<Terminal("segment"), Terminal("label")>>)
RunSignatures == {Terminal("segment"), SegmentLabel}

\* Streams of length n: the sentinel at the positions of E, the fragment
\* numbered i at every other position i.
StreamOf(sig, n, E) ==
    [i \in 1..n |-> IF i \in E THEN EndOfBatch ELSE MkFragment(sig, i)]

\* ------------------------------------------ BaseBatchGenerator.iter_batches
InitBase ==
    /\ signature_in \in RunSignatures
    /\ self_batch_size \in 0..MaxBatch
    /\ self_incomplete \in BOOLEAN
    /\ \E n \in 0..MaxStream : \E E \in SUBSET (1..n) :
          generator = StreamOf(signature_in, n, E)
    /\ pos = 0
    /\ batch_size = 0
    /\ batch_ = Value(0)
    /\ heap = <<>>
    /\ yielded = <<>>
    /\ pc = "start"
    /\ files = <<>>
    /\ infinite = FALSE
    /\ robust = FALSE
    /\ incomplete = FALSE
    /\ saved = <<>>
    /\ fidx = 0
    /\ current_file = NoFile
    /\ fpos = 0
    /\ warned = {}
    /\ visited = <<>>
    /\ prev_order = <<>>
    /\ pass_parity = 0
    /\ OtherIdle /\ RestIdle

\* Mutant: the sentinel is taken for a fragment.
NeverEndOfBatch(fragment) == FALSE

\* fragment is endOfBatch
IsEndOfBatch(fragment) == fragment = EndOfBatch

\* Mutant: the flush waits for one fragment more than self.batch_size.
BatchCompleteLate(n) == self_batch_size > 0 /\ n = self_batch_size + 1

\* self.batch_size > 0 and batch_size == self.batch_size
BatchComplete(n) == self_batch_size > 0 /\ n = self_batch_size

\* First next(): the code before the loop.
IterBatchesStart ==
    /\ pc = "start"
    /\ batch_size' = 0
    /\ batch_' = _batch_new(signature)
    /\ heap' = NewHeap(signature)
    /\ pc' = "loop"
    /\ UNCHANGED <<signature_in, self_batch_size, yielded, baseVars, fileVars>>
    /\ UNCHANGED <<otherVars, restVars>>

\* One iteration of `for fragment in self.generator`.
IterBatchesLoop ==
    /\ pc = "loop"
    /\ pos < Len(generator)
    /\ LET fragment == generator[pos + 1]
           isEnd == IsEndOfBatch(fragment)
           added == IF isEnd THEN [heap |-> heap, err |-> FALSE]
                    ELSE _batch_add(fragment, signature_in, signature, batch_, heap)
           n == IF isEnd THEN batch_size ELSE batch_size + 1
           complete == isEnd \/ BatchComplete(n)
           packed == _batch_pack(signature, batch_, added.heap)
       IN  /\ pos' = pos + 1
           /\ IF added.err
              THEN /\ pc' = "raised"
                   /\ heap' = added.heap
                   /\ UNCHANGED <<batch_size, batch_, yielded>>
              ELSE IF complete /\ n # 0 /\ packed.err
              THEN /\ pc' = "raised"
                   /\ heap' = added.heap
                   /\ batch_size' = n
                   /\ UNCHANGED <<batch_, yielded>>
              ELSE IF complete
              THEN /\ yielded' = IF n # 0 THEN Yield(postprocess(packed.value))
                                 ELSE yielded
                   /\ batch_' = _batch_new(signature)
                   /\ heap' = NewHeap(signature)
                   /\ batch_size' = 0
                   /\ pc' = "loop"
              ELSE /\ heap' = added.heap
                   /\ batch_size' = n
                   /\ UNCHANGED <<batch_, yielded, pc>>
    /\ UNCHANGED <<signature_in, self_batch_size, self_incomplete, generator, fileVars>>
    /\ UNCHANGED <<otherVars, restVars>>

\* The wrapped generator is exhausted: yield last incomplete batch.
IterBatchesEnd ==
    /\ pc = "loop"
    /\ pos = Len(generator)
    /\ LET packed == _batch_pack(signature, batch_, heap)
       IN  IF batch_size > 0 /\ self_incomplete
           THEN IF packed.err
                THEN pc' = "raised" /\ UNCHANGED yielded
                ELSE pc' = "done" /\ yielded' = Yield(postprocess(packed.value))
           ELSE pc' = "done" /\ UNCHANGED yielded
    /\ UNCHANGED <<signature_in, self_batch_size, batch_size, batch_, heap,
                   baseVars, fileVars>>
    /\ UNCHANGED <<otherVars, restVars>>

Next == IterBatchesStart \/ IterBatchesLoop \/ IterBatchesEnd

Spec == InitBase /\ [][Next]_vars

\* ------------------------------------------ FileBasedBatchGenerator.__call__
\* A file record: its unique identifier, the number of items
\* self.generator.from_file yields for it, whether self.preprocess raises,
\* and the positions at which from_file yields the sentinel (none here).
FileRecord(u, n, f) == [uri |-> u, n |-> n, fails |-> f, ends |-> {}]

\* The j-th item of from_file(file).
FragId(u, j) == u * (MaxFrags + 2) + j
FileFragment(file, j) ==
    IF j \in file.ends THEN EndOfBatch
    ELSE MkFragment(signature_in, FragId(file.uri, j))

\* Fragments per file in the lists forever loops over.
LoopFrags(u) == u % (MaxFrags + 1)

InitCall(inf) ==
    /\ signature_in = SegmentLabel
    /\ self_batch_size \in (IF inf THEN {0, MaxBatch} ELSE 0..MaxBatch)
    /\ self_incomplete = FALSE
    /\ generator = <<>>
    /\ pos = 0
    /\ batch_size = 0
    /\ batch_ = Value(0)
    /\ heap = <<>>
    /\ yielded = <<>>
    /\ pc = "start"
    /\ IF inf
       THEN \E k \in 0..MaxLoopFiles : \E f1 \in BOOLEAN :
               files = [i \in 1..k |-> FileRecord(i, LoopFrags(i), i = 1 /\ f1)]
       ELSE \E k \in 0..MaxFiles :
               \E ns \in [1..k -> 0..MaxFrags] : \E fl \in [1..k -> BOOLEAN] :
                  files = [i \in 1..k |-> FileRecord(i, ns[i], fl[i])]
    /\ infinite = inf
    /\ robust \in BOOLEAN
    /\ incomplete \in (IF inf THEN {TRUE} ELSE BOOLEAN)  \* no effect when infinite
    /\ saved = <<>>
    /\ fidx = 0
    /\ current_file = NoFile
    /\ fpos = 0
    /\ warned = {}
    /\ visited = <<>>
    /\ prev_order = <<>>
    /\ pass_parity = 0
    /\ OtherIdle /\ RestIdle

InitFile == InitCall(FALSE)
InitForever == InitCall(TRUE)

Orderings(s) ==
    {[i \in 1..Len(s) |-> s[f[i]]] :
        f \in {g \in [1..Len(s) -> 1..Len(s)] :
                  \A a, b \in 1..Len(s) : a # b => g[a] # g[b]}}

\* Mutant: a shuffle that draws every position independently.
ShuffleWithRepeats(s) == {[i \in 1..Len(s) |-> s[f[i]]] : f \in [1..Len(s) -> 1..Len(s)]}

\* random.shuffle(saved): any permutation of the list.
Shuffle(s) == Orderings(s)

\* forever is at the top of `while saved` (before the first pass or after the
\* last element of a pass).
ForeverAtTop == fidx = 0 \/ fidx = Len(saved)

\* saved = list(iterable), made by the first next().
ForeverSaved == IF fidx = 0 THEN files ELSE saved

\* Whether `for current_file in file_generator` gets one more file.
HasNextFile == IF infinite THEN ForeverSaved # <<>> ELSE fidx < Len(files)

\* Mutant: a failing preprocess is ignored in robust mode.
PreprocessUnchecked(file) ==
    IF file.fails /\ ~robust THEN "raise" ELSE "ok"

\* Mutant: a failing preprocess is skipped whatever robust is.
PreprocessAlwaysSkips(file) ==
    IF file.fails THEN "skip" ELSE "ok"

\* try: self.preprocess(...) except: continue if robust, else raise
PreprocessOutcome(file) ==
    IF file.fails THEN (IF robust THEN "skip" ELSE "raise") ELSE "ok"

\* Mutant: the mono-batch flush is never made.
NeverMonoBatch == FALSE

\* self.batch_size < 1
MonoBatch == self_batch_size < 1

\* First next(): the code before the loop.
CallStart ==
    /\ pc = "start"
    /\ batch_size' = 0
    /\ batch_' = _batch_new(signature)
    /\ heap' = NewHeap(signature)
    /\ pc' = "files"
    /\ UNCHANGED <<signature_in, self_batch_size, yielded, baseVars, fileVars>>
    /\ UNCHANGED <<otherVars, restVars>>

\* `for current_file in file_generator` gets a file: identifier, preprocess.
NextFile ==
    /\ pc = "files"
    /\ HasNextFile
    /\ \E order \in (IF infinite /\ ForeverAtTop THEN Shuffle(ForeverSaved) ELSE {saved}) :
          LET newPass == infinite /\ ForeverAtTop
              i == IF newPass THEN 1 ELSE fidx + 1
              file == IF infinite THEN order[i] ELSE files[i]
              outcome == PreprocessOutcome(file)
          IN  /\ saved' = order
              /\ fidx' = i
              /\ current_file' = file
              /\ fpos' = 0
              /\ visited' = IF newPass THEN <<file.uri>> ELSE Append(visited, file.uri)
              /\ prev_order' = IF newPass /\ fidx # 0 THEN saved ELSE prev_order
              /\ pass_parity' = IF newPass THEN 1 - pass_parity ELSE pass_parity
              /\ warned' = IF outcome = "skip" THEN warned \cup {file.uri} ELSE warned
              /\ pc' = CASE outcome = "skip" -> "files"
                         [] outcome = "raise" -> "raised"
                         [] OTHER -> "fragments"
    /\ UNCHANGED <<batchVars_but_pc, baseVars, files, infinite, robust, incomplete>>
    /\ UNCHANGED <<otherVars, restVars>>

\* One iteration of `for fragment in self.generator.from_file(...)`.
AddFragment ==
    /\ pc = "fragments"
    /\ fpos < current_file.n
    /\ LET fragment == FileFragment(current_file, fpos + 1)
           added == _batch_add(fragment, signature_in, signature, batch_, heap)
           n == batch_size + 1
           packed == _batch_pack(signature, batch_, added.heap)
       IN  /\ fpos' = fpos + 1
           /\ IF added.err
              THEN /\ pc' = "raised"
                   /\ heap' = added.heap
                   /\ UNCHANGED <<batch_size, batch_, yielded>>
              ELSE IF BatchComplete(n) /\ packed.err
              THEN /\ pc' = "raised"
                   /\ heap' = added.heap
                   /\ batch_size' = n
                   /\ UNCHANGED <<batch_, yielded>>
              ELSE IF BatchComplete(n)
              THEN /\ yielded' = Yield(postprocess(packed.value))
                   /\ batch_' = _batch_new(signature)
                   /\ heap' = NewHeap(signature)
                   /\ batch_size' = 0
                   /\ UNCHANGED pc
              ELSE /\ heap' = added.heap
                   /\ batch_size' = n
                   /\ UNCHANGED <<batch_, yielded, pc>>
    /\ UNCHANGED <<signature_in, self_batch_size, baseVars, files, infinite, robust,
                   incomplete, saved, fidx, current_file, warned, visited,
                   prev_order, pass_parity>>
    /\ UNCHANGED <<otherVars, restVars>>

\* from_file is exhausted: the mono-batch flush.
EndFile ==
    /\ pc = "fragments"
    /\ fpos = current_file.n
    /\ LET packed == _batch_pack(signature, batch_, heap)
       IN  IF MonoBatch
           THEN IF packed.err
                THEN pc' = "raised" /\ UNCHANGED <<batch_size, batch_, heap, yielded>>
                ELSE /\ yielded' = Yield(postprocess(packed.value))
                     /\ batch_' = _batch_new(signature)
                     /\ heap' = NewHeap(signature)
                     /\ batch_size' = 0
                     /\ pc' = "files"
           ELSE pc' = "files" /\ UNCHANGED <<batch_size, batch_, heap, yielded>>
    /\ UNCHANGED <<signature_in, self_batch_size, baseVars, fileVars>>
    /\ UNCHANGED <<otherVars, restVars>>

\* The file generator is exhausted: yield incomplete final batch.
CallEnd ==
    /\ pc = "files"
    /\ ~HasNextFile
    /\ LET packed == _batch_pack(signature, batch_, heap)
       IN  IF batch_size > 0 /\ batch_size < self_batch_size /\ incomplete
           THEN IF packed.err
                THEN pc' = "raised" /\ UNCHANGED yielded
                ELSE pc' = "done" /\ yielded' = Yield(postprocess(packed.value))
           ELSE pc' = "done" /\ UNCHANGED yielded
    /\ UNCHANGED <<signature_in, self_batch_size, batch_size, batch_, heap,
                   baseVars, fileVars>>
    /\ UNCHANGED <<otherVars, restVars>>

NextCall == CallStart \/ NextFile \/ AddFragment \/ EndFile \/ CallEnd

SpecFile == InitFile /\ [][NextCall]_vars

\* The caller keeps calling next() on the batch iterator.
SpecForever == InitForever /\ [][NextCall]_vars /\ WF_vars(NextCall)

\* ----------------------------- __call__ and iter_batches on the same items
\* What `for fragment in self.generator.from_file(file)` goes through.
FileStream(file) == [j \in 1..file.n |-> FileFragment(file, j)]

\* The items of the files visited (those whose preprocess did not raise), in
\* visiting order: files 1..i of the list.
RECURSIVE Concatenation(_)
Concatenation(i) ==
    IF i = 0 THEN <<>>
    ELSE Concatenation(i - 1) \o
         (IF files[i].fails THEN <<>> ELSE FileStream(files[i]))

\* iter_batches as a function of the items of self.generator: the batches it
\* yields, and whether it raises.  b, h and n are self.batch_, the lists it
\* refers to and the local batch_size before item i.
RECURSIVE IterBatches(_, _, _, _, _, _, _)
IterBatches(stream, i, b, h, n, ys, inc) ==
    IF i > Len(stream)
    THEN LET packed == _batch_pack(signature, b, h)
         IN  IF n > 0 /\ inc
             THEN IF packed.err THEN [yielded |-> ys, err |-> TRUE]
                  ELSE [yielded |-> Append(ys, postprocess(packed.value)),
                        err |-> FALSE]
             ELSE [yielded |-> ys, err |-> FALSE]
    ELSE LET fragment == stream[i]
             isEnd == IsEndOfBatch(fragment)
             added == IF isEnd THEN [heap |-> h, err |-> FALSE]
                      ELSE _batch_add(fragment, signature_in, signature, b, h)
             m == IF isEnd THEN n ELSE n + 1
             complete == isEnd \/ BatchComplete(m)
             packed == _batch_pack(signature, b, added.heap)
         IN  IF added.err THEN [yielded |-> ys, err |-> TRUE]
             ELSE IF complete /\ m # 0 /\ packed.err
             THEN [yielded |-> ys, err |-> TRUE]
             ELSE IF complete
             THEN IterBatches(stream, i + 1, _batch_new(signature),
                              NewHeap(signature), 0,
                              IF m # 0 THEN Append(ys, postprocess(packed.value))
                              ELSE ys, inc)
             ELSE IterBatches(stream, i + 1, b, added.heap, m, ys, inc)

\* list(iter_batches()) of a generator with self.incomplete = inc over stream
iter_batches(stream, inc) ==
    IterBatches(stream, 1, _batch_new(signature), NewHeap(signature), 0, <<>>, inc)

\* __call__ with a fixed batch size over files whose from_file may yield the
\* sentinel anywhere.
InitCompare ==
    /\ signature_in \in RunSignatures
    /\ self_batch_size \in 1..MaxBatch
    /\ self_incomplete = FALSE
    /\ generator = <<>>
    /\ pos = 0
    /\ batch_size = 0
    /\ batch_ = Value(0)
    /\ heap = <<>>
    /\ yielded = <<>>
    /\ pc = "start"
    /\ \E k \in 0..MaxFiles : \E ns \in [1..k -> 0..MaxFrags] :
          \E fl \in [1..k -> BOOLEAN] : \E es \in [1..k -> SUBSET (1..MaxFrags)] :
             /\ \A i \in 1..k : es[i] \subseteq 1..ns[i]
             /\ files = [i \in 1..k |->
                            [FileRecord(i, ns[i], fl[i]) EXCEPT !.ends = es[i]]]
    /\ infinite = FALSE
    /\ robust = TRUE              \* a file whose preprocess raises is skipped
    /\ incomplete \in BOOLEAN
    /\ saved = <<>>
    /\ fidx = 0
    /\ current_file = NoFile
    /\ fpos = 0
    /\ warned = {}
    /\ visited = <<>>
    /\ prev_order = <<>>
    /\ pass_parity = 0
    /\ OtherIdle /\ RestIdle

SpecCompare == InitCompare /\ [][NextCall]_vars

\* ------------------------- the assembler alone: new, add ..., pack
BaseIdle == self_incomplete = FALSE /\ generator = <<>> /\ pos = 0
FileIdle ==
    /\ files = <<>> /\ infinite = FALSE /\ robust = FALSE /\ incomplete = FALSE
    /\ saved = <<>> /\ fidx = 0 /\ current_file = NoFile /\ fpos = 0
    /\ warned = {} /\ visited = <<>> /\ prev_order = <<>> /\ pass_parity = 0
BatchIdle ==
    /\ self_batch_size = 0 /\ batch_size = 0 /\ batch_ = Value(0)
    /\ heap = <<>> /\ yielded = <<>>

\* Signatures of the samplers of fragment.py and of a dict-shaped generator.
TrackSignature == PyList(<<Terminal("segment"), Terminal("track")>>)
TrackTriplet == PyList(<<TrackSignature, TrackSignature, TrackSignature>>)
PairSignature ==
    PyList(<<PyTuple(<<Terminal("segment"), Terminal("segment")>>), Terminal("scalar")>>)
DictSignature == PyDict(<<"X", "y">>, <<Terminal("ndarray"), Terminal("label")>>)
Signatures ==
    {Terminal("segment"), SegmentLabel, TrackTriplet, PairSignature, DictSignature}

\* The id of the value fragment number k holds at terminal number j.
LeafId(j, k) == j * (MaxAdds + 2) + k

\* Fragment number k of a generator of this signature: one value per terminal.
RECURSIVE MkNumbered(_, _, _)
MkNumbered(sig, k, base) ==
    IF sig.kind = "terminal"
    THEN Value(LeafId(base + 1, k))
    ELSE [sig EXCEPT
            !.items = [i \in 1..Len(sig.items) |->
                          MkNumbered(sig.items[i], k, base + LeavesBefore(sig.items, i))]]

\* The same fragment with tuples for lists and lists for tuples.
RECURSIVE SwapKinds(_)
SwapKinds(f) ==
    IF f.kind \in {"list", "tuple", "dict"}
    THEN [f EXCEPT !.kind = IF @ = "list" THEN "tuple" ELSE IF @ = "tuple" THEN "list" ELSE @,
                   !.items = [i \in 1..Len(f.items) |-> SwapKinds(f.items[i])]]
    ELSE f

\* The fragment without its last component / with one component more.
Shorter(f) ==
    IF f.kind \in {"list", "tuple", "dict"} /\ Len(f.items) > 0
    THEN [f EXCEPT !.items = SubSeq(@, 1, Len(@) - 1),
                   !.keys = IF f.kind = "dict" THEN SubSeq(@, 1, Len(@) - 1) ELSE @]
    ELSE f
Longer(f) ==
    IF f.kind \in {"list", "tuple", "dict"}
    THEN [f EXCEPT !.items = Append(@, Value(0)),
                   !.keys = IF f.kind = "dict" THEN Append(@, "extra") ELSE @]
    ELSE f
InFirst(f, g) ==
    IF f.kind \in {"list", "tuple", "dict"} /\ Len(f.items) > 0
    THEN [f EXCEPT !.items[1] = g] ELSE f

\* What a generator may hand over as its k-th fragment: the fragment its
\* signature describes, and fragments of another shape.
Candidates(sig, k) ==
    LET F == MkNumbered(sig, k, 0)
    IN  {F, SwapKinds(F), Shorter(F), Longer(F),
         InFirst(F, Shorter(F.items[1])), InFirst(F, Longer(F.items[1])),
         Value(LeafId(1, k))}

InitAssemble ==
    /\ signature_in \in Signatures
    /\ pc = "start"
    /\ BatchIdle /\ BaseIdle /\ FileIdle /\ OtherIdle /\ RestIdle

AssembleNew ==
    /\ pc = "start"
    /\ batch_' = _batch_new(signature)
    /\ heap' = NewHeap(signature)
    /\ pc' = "adding"
    /\ UNCHANGED <<signature_in, self_batch_size, batch_size, yielded, baseVars,
                   fileVars, otherVars, restVars>>

AssembleAdd ==
    /\ pc = "adding"
    /\ Len(given) < MaxAdds
    /\ \E f \in Candidates(signature_in, Len(given) + 1) :
          LET r == _batch_add(f, signature_in, signature, batch_, heap)
          IN  /\ heap' = r.heap
              /\ given' = Append(given, f)
              /\ batch_size' = IF r.err THEN batch_size ELSE batch_size + 1
              /\ pc' = IF r.err THEN "raised" ELSE "adding"
    /\ UNCHANGED <<signature_in, self_batch_size, batch_, yielded, baseVars,
                   fileVars, sampler, sample, restVars>>

AssemblePack ==
    /\ pc = "adding"
    /\ LET packed == _batch_pack(signature, batch_, heap)
       IN  IF packed.err
           THEN pc' = "raised" /\ UNCHANGED yielded
           ELSE pc' = "packed" /\ yielded' = <<postprocess(packed.value)>>
    /\ UNCHANGED <<signature_in, self_batch_size, batch_size, batch_, heap,
                   baseVars, fileVars, otherVars, restVars>>

NextAssemble == AssembleNew \/ AssembleAdd \/ AssemblePack

SpecAssemble == InitAssemble /\ [][NextAssemble]_vars

\* --------------------------------------------- the samplers of fragment.py
\* The sampled annotation: track s is segment s, labelled s % 2.
Tracks == {[segment |-> x, track |-> 1, label |-> x % 2] : x \in 1..MaxSegs}

Segment(x) == Value(x)
Options(name, yl, vl) == [name |-> name, yield_label |-> yl, variable_length_ |-> vl]

\* The samplers and the options their constructors take.
Samplers ==
    {Options(n, FALSE, vl) : n \in {"SlidingSegments", "SlidingLabeledSegments"},
                             vl \in BOOLEAN}
    \cup {Options(n, FALSE, FALSE) :
             n \in {"TwinSlidingSegments", "RandomLabeledSegments", "RandomSegments"}}
    \cup {Options(n, yl, FALSE) :
             n \in {"RandomSegmentsPerLabel", "RandomTracks", "RandomTrackTriplets",
                    "RandomSegmentTriplets", "RandomSegmentPairs"},
             yl \in BOOLEAN}

RandomTracks_signature(yield_label) ==
    PyList(<<Terminal("segment"), Terminal("track")>>
           \o (IF yield_label THEN <<Terminal("label")>> ELSE <<>>))

\* 3 * [...]: the list repeated three times, flat.
RandomSegmentTriplets_signature(yield_label) ==
    LET once == IF yield_label THEN <<Terminal("segment"), Terminal("label")>>
                ELSE <<Terminal("segment")>>
    IN  PyList(once \o once \o once)

\* signature() of each sampler.
SamplerSignature(o) ==
    CASE o.name \in {"SlidingSegments", "RandomSegments"} -> Terminal("segment")
      [] o.name = "TwinSlidingSegments" ->
            PyTuple(<<Terminal("scalar"), Terminal("segment"), Terminal("segment")>>)
      [] o.name \in {"SlidingLabeledSegments", "RandomLabeledSegments"} -> SegmentLabel
      [] o.name = "RandomSegmentsPerLabel" ->
            IF o.yield_label THEN SegmentLabel ELSE Terminal("segment")
      [] o.name = "RandomTracks" -> RandomTracks_signature(o.yield_label)
      [] o.name = "RandomTrackTriplets" ->
            PyList(<<RandomTracks_signature(o.yield_label),
                     RandomTracks_signature(o.yield_label),
                     RandomTracks_signature(o.yield_label)>>)
      [] o.name = "RandomSegmentTriplets" -> RandomSegmentTriplets_signature(o.yield_label)
      [] o.name = "RandomSegmentPairs" ->
            LET sg == RandomSegmentTriplets_signature(o.yield_label)
            IN  PyList(<<PyTuple(<<sg.items[1], sg.items[1]>>), Terminal("scalar")>>)

\* RandomTracks.iter_tracks: segment, track(, label)
RandomTracks_item(yield_label, t) ==
    PyTuple(<<Segment(t.segment), Value(t.track)>>
            \o (IF yield_label THEN <<Value(t.label)>> ELSE <<>>))

\* RandomTrackTriplets.iter_triplets: anchor and positive among the tracks of
\* a label, negative among the others.
TrackTriplets(yield_label) ==
    {PyTuple(<<RandomTracks_item(yield_label, a), RandomTracks_item(yield_label, b),
               RandomTracks_item(yield_label, c)>>) :
        <<a, b, c>> \in {t \in Tracks \X Tracks \X Tracks :
                            t[1].label = t[2].label /\ t[3].label # t[1].label}}

\* RandomSegmentTriplets.iter_triplets: item[0] (and item[2]) of each track.
SegmentOf(yield_label, item) ==
    IF yield_label THEN PyTuple(<<item.items[1], item.items[3]>>) ELSE item.items[1]
SegmentTriplets(yield_label) ==
    {PyTuple(<<SegmentOf(yield_label, t.items[1]), SegmentOf(yield_label, t.items[2]),
               SegmentOf(yield_label, t.items[3])>>) : t \in TrackTriplets(yield_label)}

InitSampler ==
    /\ sampler \in Samplers
    /\ signature_in = SamplerSignature(sampler)
    /\ sample = Value(0)
    /\ given = <<>>
    /\ pc = "sampling"
    /\ BatchIdle /\ BaseIdle /\ FileIdle /\ RestIdle

Sampled(f) ==
    /\ pc = "sampling"
    /\ pos < MaxYields
    /\ sample' = f
    /\ pos' = pos + 1
    /\ UNCHANGED <<batchVars, self_incomplete, generator, fileVars, given, sampler,
                   restVars>>

\* SlidingSegments, RandomSegments, RandomSegmentsPerLabel: a segment, or
\* (segment, label).
YieldSegment ==
    /\ sampler.name \in {"SlidingSegments", "RandomSegments", "RandomSegmentsPerLabel"}
    /\ \E t \in Tracks :
          Sampled(IF sampler.yield_label
                  THEN PyTuple(<<Segment(t.segment), Value(t.label)>>)
                  ELSE Segment(t.segment))

\* SlidingLabeledSegments, RandomLabeledSegments: (segment, label).
YieldLabeledSegment ==
    /\ sampler.name \in {"SlidingLabeledSegments", "RandomLabeledSegments"}
    /\ \E t \in Tracks : Sampled(PyTuple(<<Segment(t.segment), Value(t.label)>>))

\* TwinSlidingSegments: t, left, right.
YieldTwin ==
    /\ sampler.name = "TwinSlidingSegments"
    /\ \E x \in 1..(MaxSegs - 1) :
          Sampled(PyTuple(<<Value(x), Segment(x), Segment(x + 1)>>))

YieldTrack ==
    /\ sampler.name = "RandomTracks"
    /\ \E t \in Tracks : Sampled(RandomTracks_item(sampler.yield_label, t))

YieldTrackTriplet ==
    /\ sampler.name = "RandomTrackTriplets"
    /\ \E f \in TrackTriplets(sampler.yield_label) : Sampled(f)

YieldSegmentTriplet ==
    /\ sampler.name = "RandomSegmentTriplets"
    /\ \E f \in SegmentTriplets(sampler.yield_label) : Sampled(f)

\* RandomSegmentPairs.iter_pairs: [(query, positive), True], then
\* [(query, negative), False] of the same triplet.
YieldPair ==
    /\ sampler.name = "RandomSegmentPairs"
    /\ \E f \in SegmentTriplets(sampler.yield_label) :
          IF pos % 2 = 0
          THEN Sampled(PyList(<<PyTuple(<<f.items[1], f.items[2]>>), Value(1)>>))
          ELSE /\ f.items[1] = sample.items[1].items[1]
               /\ Sampled(PyList(<<PyTuple(<<f.items[1], f.items[3]>>), Value(0)>>))

NextSampler ==
    \/ YieldSegment \/ YieldLabeledSegment \/ YieldTwin \/ YieldTrack
    \/ YieldTrackTriplet \/ YieldSegmentTriplet \/ YieldPair

SpecSampler == InitSampler /\ [][NextSampler]_vars

\* ------------------------------------------------------ BackgroundGenerator
\* Mutant: a put that drops the item instead of blocking on a full queue.
PutOrDrop(q, maxsize, item) ==
    IF maxsize > 0 /\ Len(q) >= maxsize
    THEN [ok |-> TRUE, queue |-> q]
    ELSE [ok |-> TRUE, queue |-> Append(q, item)]

\* queue.Queue(maxsize).put(item): blocks (ok = FALSE) while maxsize > 0 and
\* the queue holds maxsize items.
QueuePut(q, maxsize, item) ==
    IF maxsize > 0 /\ Len(q) >= maxsize
    THEN [ok |-> FALSE, queue |-> q]
    ELSE [ok |-> TRUE, queue |-> Append(q, item)]

\* What the wrapped generator holds at position i: a plain item, the item
\* None, or the leaf of a batch still to be packed by the batch generator
\* (values that stack, values that do not).
EntryKinds == {"item", "none", "batch", "bad"}
Entry(i, c) ==
    CASE c = "item" -> Value(i)
      [] c = "none" -> None
      [] c = "batch" -> PyList(<<Array(i, <<2>>), Array(i, <<2>>)>>)
      [] c = "bad" -> PyList(<<Array(i, <<2>>), Array(i, <<3>>)>>)

\* next(self.generator): the item, or the error raised while it is made.
GeneratorNext(entry) ==
    IF entry.kind = "list" THEN pack_batch(entry.items)
    ELSE [err |-> FALSE, value |-> entry]

\* Items of an endless generator.
ForeverItems == {Value(1), Value(2), None}

\* BackgroundGenerator(generator, max_prefetch): the thread is started.
InitThread(inf) ==
    /\ bg_infinite = inf
    /\ IF inf
       THEN bg_generator = <<>> /\ max_prefetch \in 1..MaxPrefetch
       ELSE /\ \E n \in 0..MaxItems : \E c \in [1..n -> EntryKinds] :
                  bg_generator = [i \in 1..n |-> Entry(i, c[i])]
            /\ max_prefetch \in (-1)..MaxPrefetch
    /\ bg_taken = 0
    /\ queue_ = <<>>
    /\ run_pc = "for"
    /\ run_item = None
    /\ next_pc = "idle"
    /\ delivered = <<>>
    /\ signature_in = Terminal("segment")
    /\ pc = "thread"
    /\ BatchIdle /\ BaseIdle /\ FileIdle /\ OtherIdle /\ IndexIdle /\ TripletIdle
    /\ LateIdle

ThreadFrame == UNCHANGED <<batchVars, baseVars, fileVars, otherVars, bg_generator,
                           bg_infinite, max_prefetch, indexVars, tripletVars,
                           lateVars>>

\* run(): `for item in self.generator` takes the next item.
RunNext ==
    /\ run_pc = "for"
    /\ IF bg_infinite
       THEN /\ \E item \in ForeverItems : run_item' = item
            /\ run_pc' = "put"
            /\ UNCHANGED bg_taken
       ELSE IF bg_taken = Len(bg_generator)
       THEN run_pc' = "put_none" /\ UNCHANGED <<run_item, bg_taken>>
       ELSE LET r == GeneratorNext(bg_generator[bg_taken + 1])
            IN  /\ bg_taken' = bg_taken + 1
                /\ IF r.err
                   THEN run_pc' = "crashed" /\ UNCHANGED run_item
                   ELSE run_pc' = "put" /\ run_item' = r.value
    /\ UNCHANGED <<queue_, next_pc, delivered>>
    /\ ThreadFrame

\* run(): self.queue_.put(item)
RunPut ==
    /\ run_pc = "put"
    /\ LET r == QueuePut(queue_, max_prefetch, run_item)
       IN  /\ r.ok
           /\ queue_' = r.queue
    /\ run_pc' = "for"
    /\ UNCHANGED <<run_item, bg_taken, next_pc, delivered>>
    /\ ThreadFrame

\* run(): self.queue_.put(None)
RunPutNone ==
    /\ run_pc = "put_none"
    /\ LET r == QueuePut(queue_, max_prefetch, None)
       IN  /\ r.ok
           /\ queue_' = r.queue
    /\ run_pc' = "finished"
    /\ UNCHANGED <<run_item, bg_taken, next_pc, delivered>>
    /\ ThreadFrame

\* The consumer calls next().
NextEnter ==
    /\ next_pc = "idle"
    /\ next_pc' = "get"
    /\ UNCHANGED <<queue_, run_pc, run_item, bg_taken, delivered>>
    /\ ThreadFrame

\* next(): self.queue_.get() returns; None raises StopIteration.
NextGet ==
    /\ next_pc = "get"
    /\ queue_ # <<>>
    /\ queue_' = Tail(queue_)
    /\ IF Head(queue_) = None
       THEN next_pc' = "stopped" /\ UNCHANGED delivered
       ELSE /\ next_pc' = "idle"
            /\ delivered' = IF bg_infinite THEN <<Head(queue_)>>
                            ELSE Append(delivered, Head(queue_))
    /\ UNCHANGED <<run_pc, run_item, bg_taken>>
    /\ ThreadFrame

\* The consumer stops pulling.
NextQuit ==
    /\ next_pc = "idle"
    /\ next_pc' = "quit"
    /\ UNCHANGED <<queue_, run_pc, run_item, bg_taken, delivered>>
    /\ ThreadFrame

Run == RunNext \/ RunPut \/ RunPutNone
NextThread == Run \/ NextEnter \/ NextGet
SpecThread == InitThread(FALSE) /\ [][NextThread]_vars

\* The consumer calls next() again after next() raised StopIteration.
NextAgain ==
    /\ next_pc = "stopped"
    /\ next_pc' = "get_again"
    /\ UNCHANGED <<queue_, run_pc, run_item, bg_taken, delivered>>
    /\ ThreadFrame

\* next() after StopIteration: self.queue_.get() returns; None raises
\* StopIteration once more, anything else is returned.
NextGetAgain ==
    /\ next_pc = "get_again"
    /\ queue_ # <<>>
    /\ queue_' = Tail(queue_)
    /\ next_pc' = IF Head(queue_) = None THEN "stopped" ELSE "returned"
    /\ UNCHANGED <<run_pc, run_item, bg_taken, delivered>>
    /\ ThreadFrame

NextThreadAgain == NextThread \/ NextAgain \/ NextGetAgain
SpecThreadAgain == InitThread(FALSE) /\ [][NextThreadAgain]_vars

RunForever == RunNext \/ RunPut
NextThreadForever == RunForever \/ NextEnter \/ NextGet \/ NextQuit
SpecThreadForever ==
    InitThread(TRUE) /\ [][NextThreadForever]_vars /\ WF_vars(RunForever)

\* -------------------------------------------------------- random_label_index
\* np.unique(y): the distinct labels of y in increasing order ...
RECURSIVE SortedSeq(_)
SortedSeq(S) ==
    IF S = {} THEN <<>>
    ELSE LET lo == CHOOSE x \in S : \A z \in S : x <= z
         IN  <<lo>> \o SortedSeq(S \ {lo})
Unique(y) == SortedSeq({y[i] : i \in 1..Len(y)})
\* ... return_inverse: the position of y[i] in unique ...
Inverse(y) == LET unique == Unique(y) IN [i \in 1..Len(y) |-> KeyIndex(unique, y[i])]
\* ... return_counts, and np.where(y == label)[0]: the indices in increasing order.
Where(y, label) ==
    LET inverse == Inverse(y) IN SortedSeq({i \in 1..Len(y) : inverse[i] = label})
Counts(y) ==
    LET unique == Unique(y)
        inverse == Inverse(y)
    IN  [label \in 1..Len(unique) |->
            Cardinality({i \in 1..Len(y) : inverse[i] = label})]
n_labels == Len(Unique(y_))

\* The label arrays given: sorted one way or the other.
Monotone(y) ==
    \/ \A a, b \in 1..Len(y) : a <= b => y[a] <= y[b]
    \/ \A a, b \in 1..Len(y) : a <= b => y[a] >= y[b]

InitIndex ==
    /\ \E n \in 1..MaxY : y_ \in {y \in [1..n -> 1..MaxLabels] : Monotone(y)}
    /\ per_label \in 1..MaxPerLabel
    /\ repeat \in BOOLEAN
    \* with return_label=False the same indices are yielded, without the label
    /\ return_label = TRUE
    /\ shuffled_sequences = [label \in 1..n_labels |-> Where(y_, label)]
    /\ consumed = [label \in 1..n_labels |-> 0]
    /\ previous_label = 0
    /\ round_order = <<>> /\ k_ = 0 /\ label_ = 0 /\ left = 0
    /\ index_pc = "while"
    /\ out = <<>> /\ round_out = <<>> /\ skipped = 0
    /\ signature_in = Terminal("scalar")
    /\ pc = "index"
    /\ BatchIdle /\ BaseIdle /\ FileIdle /\ OtherIdle /\ ThreadIdle /\ TripletIdle
    /\ LateIdle

IndexFrame == UNCHANGED <<batchVars, baseVars, fileVars, otherVars, threadVars,
                          tripletVars, lateVars, y_, per_label, repeat,
                          return_label>>

\* Mutant: the round is drawn with replacement.
ChoiceWithReplacement(n) == [1..n -> 1..n]

\* np.random.choice(n_labels, size=n_labels, replace=False)
RandomChoice(n) == Orderings([i \in 1..n |-> i])

\* np.random.shuffle(shuffled_sequences[label])
NpShuffle(s) == Orderings(s)

\* `while True`: a new round is drawn.
IndexRound ==
    /\ index_pc = "while"
    /\ round_order' \in RandomChoice(n_labels)
    /\ k_' = 0
    /\ round_out' = <<>>
    /\ skipped' = 0
    /\ index_pc' = "for"
    /\ UNCHANGED <<shuffled_sequences, consumed, previous_label, label_, left, out>>
    /\ IndexFrame

\* `for k, label in enumerate(...)`: the next label of the round, skipped
\* when it is the first and equals previous_label; the end of the round.
IndexLabel ==
    /\ index_pc = "for"
    /\ IF k_ = n_labels
       THEN /\ previous_label' = label_
            /\ index_pc' = "while"
            /\ UNCHANGED <<k_, label_, left, skipped>>
       ELSE /\ label_' = round_order[k_ + 1]
            /\ IF k_ = 0 /\ round_order[1] = previous_label
               THEN /\ k_' = 1
                    /\ skipped' = round_order[1]
                    /\ UNCHANGED <<left, index_pc>>
               ELSE /\ left' = IF repeat THEN per_label
                               ELSE Min(per_label, Counts(y_)[round_order[k_ + 1]])
                    /\ index_pc' = "yield"
                    /\ UNCHANGED <<k_, skipped>>
            /\ UNCHANGED previous_label
    /\ UNCHANGED <<shuffled_sequences, consumed, round_order, out, round_out>>
    /\ IndexFrame

\* Mutant: the pool is reshuffled one index too late.
PoolExhaustedLate(c, n) == c > n

\* consumed[label] + 1 > counts[label]
PoolExhausted(c, n) == c + 1 > n

\* One iteration of `for _ in range(per_this_label)`: yield, count, reshuffle.
IndexYield ==
    /\ index_pc = "yield"
    /\ Len(out) < MaxOut
    /\ IF consumed[label_] + 1 > Len(shuffled_sequences[label_])
       THEN /\ index_pc' = "raised"
            /\ UNCHANGED <<shuffled_sequences, consumed, k_, left, out, round_out>>
       ELSE LET i == shuffled_sequences[label_][consumed[label_] + 1]
                c == consumed[label_] + 1
            IN  /\ out' = Append(out, [i |-> i,
                                           label |-> IF return_label THEN Unique(y_)[label_]
                                                     ELSE 0])
                /\ round_out' = Append(round_out, label_)
                /\ IF PoolExhausted(c, Counts(y_)[label_])
                   THEN /\ consumed' = [consumed EXCEPT ![label_] = 0]
                        /\ \E sh \in NpShuffle(shuffled_sequences[label_]) :
                              shuffled_sequences' =
                                  [shuffled_sequences EXCEPT ![label_] = sh]
                   ELSE /\ consumed' = [consumed EXCEPT ![label_] = c]
                        /\ UNCHANGED shuffled_sequences
                /\ left' = left - 1
                /\ IF left = 1
                   THEN k_' = k_ + 1 /\ index_pc' = "for"
                   ELSE UNCHANGED <<k_, index_pc>>
    /\ UNCHANGED <<previous_label, round_order, label_, skipped>>
    /\ IndexFrame

NextIndex == IndexRound \/ IndexLabel \/ IndexYield
SpecIndex == InitIndex /\ [][NextIndex]_vars

\* The consumer is waiting in next(): the generator keeps running.
SpecIndexLive == InitIndex /\ [][NextIndex]_vars /\ WF_vars(NextIndex)

\* ------------------------------------------------ triplet and pair samplers
\* Segment s lasts s seconds and carries at most one track.
Duration(s) == s
Present == {s \in 1..Len(annotation) : annotation[s] # 0}

\* RandomSegmentTriplets.iter_triplets keeps the tracks whose segment is not
\* shorter than self.duration; RandomTrackTriplets takes the annotation as is.
Qualifying ==
    IF t_sampler = "RandomTrackTriplets" THEN Present
    ELSE {s \in Present : ~(Duration(s) < t_duration)}

\* annotation.labels(): sorted.
Labels(S) == SortedSeq({annotation[s] : s \in S})

\* Mutant: a subset that keeps the tracks of every label.
SubsetAny(S, label) == S

\* from_annotation.subset([label]) and subset([label], invert=True)
Subset(S, label) == {s \in S : annotation[s] = label}
SubsetInvert(S, label) == {s \in S : annotation[s] # label}

\* What is yielded for the track of segment s: (segment, track) by the track
\* sampler, the segment (or a random subsegment of length duration) by the
\* segment samplers.
Item(s) ==
    IF t_sampler = "RandomTrackTriplets"
    THEN [segment |-> s, track |-> 1, sub |-> FALSE]
    ELSE [segment |-> s, track |-> 0, sub |-> t_duration # 0]

InitTriplets ==
    /\ annotation \in [1..MaxTracks -> 0..MaxTrackLabels]
    /\ t_sampler \in {"RandomTrackTriplets", "RandomSegmentTriplets", "RandomSegmentPairs"}
    /\ t_per_label \in 1..MaxQuota
    /\ t_duration \in {0, 2}
    /\ t_labels = <<>> /\ t_li = 0 /\ t_count = 0
    /\ t_pc = "start"
    /\ t_last = <<>> /\ t_anchors = <<>>
    /\ t_pair = <<>> /\ t_prev_pair = <<>> /\ t_tags = <<>>
    /\ signature_in = Terminal("segment")
    /\ pc = "triplets"
    /\ BatchIdle /\ BaseIdle /\ FileIdle /\ OtherIdle /\ ThreadIdle /\ IndexIdle
    /\ LateIdle

TripletFrame == UNCHANGED <<batchVars, baseVars, fileVars, otherVars, threadVars,
                            indexVars, lateVars, annotation, t_sampler,
                            t_per_label, t_duration>>

\* len(annotation.labels()) < 2: return (segment samplers only)
TooFewLabels ==
    t_sampler # "RandomTrackTriplets" /\ Len(Labels(Qualifying)) < 2

\* The first next(): up to `for label in from_annotation.labels()`.
TripletStart ==
    /\ t_pc = "start"
    /\ IF TooFewLabels
       THEN t_pc' = "done" /\ UNCHANGED t_labels
       ELSE t_pc' = "label" /\ t_labels' = Labels(Qualifying)
    /\ UNCHANGED <<t_li, t_count, t_last, t_anchors, t_pair, t_prev_pair, t_tags>>
    /\ TripletFrame

\* Mutant: the loop over the labels ends one label early.
NoLabelLeftEarly(li, labels) == li + 1 >= Len(labels)

\* `for label in from_annotation.labels()` is exhausted
NoLabelLeft(li, labels) == li = Len(labels)

\* `for label in ...`: the next label, or the end of the generator.
TripletLabel ==
    /\ t_pc = "label"
    /\ IF NoLabelLeft(t_li, t_labels)
       THEN t_pc' = "done" /\ UNCHANGED <<t_li, t_count>>
       ELSE t_li' = t_li + 1 /\ t_count' = 0 /\ t_pc' = "draw"
    /\ UNCHANGED <<t_labels, t_last, t_anchors, t_pair, t_prev_pair, t_tags>>
    /\ TripletFrame

\* Mutant: the loop over range(self.per_label) ends one triplet early.
QuotaReachedEarly(count, quota) == count + 1 >= quota

\* range(self.per_label) is exhausted
QuotaReached(count, quota) == count = quota

\* One iteration of `for _ in range(self.per_label)`: anchor and positive
\* from the tracks of the label, negative from the others (random.randrange
\* raises ValueError when there is none); the triplet is yielded, or the
\* first pair made of it.
TripletDraw ==
    /\ t_pc = "draw"
    /\ LET label == t_labels[t_li]
           positives == Subset(Qualifying, label)
           negatives == SubsetInvert(Qualifying, label)
       IN  IF QuotaReached(t_count, t_per_label)
           THEN /\ t_pc' = "label"
                /\ UNCHANGED <<t_count, t_last, t_anchors, t_pair, t_prev_pair, t_tags>>
           ELSE IF negatives = {}
           THEN /\ t_pc' = "raised"
                /\ UNCHANGED <<t_count, t_last, t_anchors, t_pair, t_prev_pair, t_tags>>
           ELSE \E a \in positives, p \in positives, n \in negatives :
                   /\ t_last' = <<Item(a), Item(p), Item(n)>>
                   /\ t_anchors' = Append(t_anchors, annotation[a])
                   /\ t_count' = t_count + 1
                   /\ IF t_sampler = "RandomSegmentPairs"
                      THEN /\ t_pair' = <<<<Item(a), Item(p)>>, TRUE>>
                           /\ t_prev_pair' = t_pair
                           /\ t_tags' = Append(t_tags, TRUE)
                           /\ t_pc' = "second"
                      ELSE UNCHANGED <<t_pair, t_prev_pair, t_tags, t_pc>>
    /\ UNCHANGED <<t_labels, t_li>>
    /\ TripletFrame

\* iter_pairs: yield [(query, negative), False]
PairSecond ==
    /\ t_pc = "second"
    /\ t_pair' = <<<<t_last[1], t_last[3]>>, FALSE>>
    /\ t_prev_pair' = t_pair
    /\ t_tags' = Append(t_tags, FALSE)
    /\ t_pc' = "draw"
    /\ UNCHANGED <<t_labels, t_li, t_count, t_last, t_anchors>>
    /\ TripletFrame

NextTriplets == TripletStart \/ TripletLabel \/ TripletDraw \/ PairSecond
SpecTriplets == InitTriplets /\ [][NextTriplets]_vars

\* ---------------------------------------- SlidingSegments and RandomSegments
\* Time is counted in ticks.  Segment(start, end) and its duration.
Seg(a, b) == [start |-> a, end |-> b]
DurationOf(s) == s.end - s.start
Later(a, b) == IF a > b THEN a ELSE b

\* Mutant: a containment test that looks at the start of the window only.
SegContainsStart(self, other) == self.start <= other.start

\* `other in self` (Segment.__contains__)
SegContains(self, other) == self.start <= other.start /\ other.end <= self.end

\* Mutant: an intersection that returns the window unclipped.
SegAndUnclipped(a, b) == a

\* `a & b` (Segment.__and__)
SegAnd(a, b) == Seg(Later(a.start, b.start), Min(a.end, b.end))

\* SlidingWindow(duration, step, start, end)[i]: the i-th window (from 0);
\* the iteration stops at the first window that starts at or after `end`.
WindowLeft(step, start, end, i) == start + i * step < end
WindowAt(duration, step, start, i) == Seg(start + i * step, start + i * step + duration)

\* Timelines: segments sorted by start, then end.
SourceSegments == {Seg(a, b) : <<a, b>> \in {p \in (0..MaxTime) \X (0..MaxTime) : p[1] < p[2]}}
SegBefore(a, b) == a.start < b.start \/ (a.start = b.start /\ a.end < b.end)
Timelines ==
    UNION {{t \in [1..n -> SourceSegments] :
               \A i \in 1..(n - 1) : SegBefore(t[i], t[i + 1])} : n \in 0..MaxSources}

\* The segments iter_segments goes through, for each type of `source`.
Sources ==
    [kind : {"Timeline", "Annotation"}, segments : Timelines]
    \cup {[kind |-> "Segment", segments |-> <<g>>] : g \in SourceSegments}
    \cup {[kind |-> "float", segments |-> <<Seg(0, x)>>] : x \in 1..MaxTime}

\* SlidingSegments(duration, step, min_duration) or RandomSegments(duration),
\* and the source handed to iter_segments.  min_duration = 0 stands for None.
InitSegments ==
    /\ \E src \in Sources : s_kind = src.kind /\ s_segments = src.segments
    /\ \/ /\ s_sampler = "SlidingSegments"
          /\ s_duration \in 1..MaxWin
          /\ s_step \in 1..MaxStep
          /\ \E min_duration \in 0..MaxWin :
                /\ s_variable = (min_duration # 0)
                /\ s_min_duration = IF min_duration # 0 THEN min_duration
                                    ELSE s_duration
       \/ /\ s_sampler = "RandomSegments"
          /\ s_duration \in 0..MaxWin
          /\ s_step = 0 /\ s_variable = FALSE /\ s_min_duration = 0
    /\ s_kept = <<>> /\ s_si = 0 /\ s_wi = 0 /\ s_out = <<>>
    /\ s_pc = "start"
    /\ signature_in = Terminal("segment")
    /\ pc = "segments"
    /\ BatchIdle /\ BaseIdle /\ FileIdle /\ OtherIdle
    /\ ThreadIdle /\ IndexIdle /\ TripletIdle /\ BufIdle /\ CheckIdle

SegFrame == UNCHANGED <<batchVars, baseVars, fileVars, otherVars, threadVars,
                        indexVars, tripletVars, bufVars, checkVars, s_sampler, s_kind, s_segments,
                        s_duration, s_step, s_min_duration, s_variable>>

\* Mutant: the filter of RandomSegments keeps the segments as long as duration.
AtLeastAsLong(segment, duration) == DurationOf(segment) >= duration

\* segment.duration > self.duration
LongerThan(segment, duration) == DurationOf(segment) > duration

\* [segment for segment in segments if segment.duration > self.duration],
\* as positions in `segments`.
RECURSIVE Kept(_, _, _)
Kept(segments, duration, i) ==
    IF i > Len(segments) THEN <<>>
    ELSE (IF LongerThan(segments[i], duration) THEN <<i>> ELSE <<>>)
         \o Kept(segments, duration, i + 1)

\* iter_segments up to its loop: the type of source is looked at;
\* RandomSegments filters the segments and raises when none is left.
SegStart ==
    /\ s_pc = "start"
    /\ IF s_sampler = "SlidingSegments"
       THEN s_pc' = "for" /\ UNCHANGED s_kept
       ELSE IF s_kind = "float"
       THEN /\ s_pc' = IF s_duration > 0 THEN "NameError" ELSE "ValueError"
            /\ UNCHANGED s_kept
       ELSE /\ s_kept' = Kept(s_segments, s_duration, 1)
            /\ s_pc' = IF s_kept' = <<>> THEN "ValueError" ELSE "draw"
    /\ UNCHANGED <<s_si, s_wi, s_out>>
    /\ SegFrame

\* SlidingSegments: `for segment in segments`
SlideSegment ==
    /\ s_pc = "for"
    /\ IF s_si = Len(s_segments)
       THEN s_pc' = "done" /\ UNCHANGED <<s_si, s_wi, s_out>>
       ELSE LET segment == s_segments[s_si + 1]
            IN  /\ s_si' = s_si + 1
                /\ IF DurationOf(segment) < s_min_duration
                   THEN UNCHANGED <<s_pc, s_wi, s_out>>
                   ELSE IF DurationOf(segment) < s_duration
                   THEN /\ s_out' = IF s_variable
                                    THEN Append(s_out, [seg |-> segment, src |-> s_si + 1])
                                    ELSE s_out
                        /\ UNCHANGED <<s_pc, s_wi>>
                   ELSE s_pc' = "window" /\ s_wi' = 0 /\ UNCHANGED s_out
    /\ UNCHANGED s_kept
    /\ SegFrame

\* SlidingSegments: `for s in window`
SlideWindow ==
    /\ s_pc = "window"
    /\ LET segment == s_segments[s_si]
           s == WindowAt(s_duration, s_step, segment.start, s_wi)
       IN  IF ~WindowLeft(s_step, segment.start, segment.end, s_wi)
           THEN s_pc' = "for" /\ UNCHANGED <<s_wi, s_out>>
           ELSE /\ s_wi' = s_wi + 1
                /\ IF SegContains(segment, s)
                   THEN /\ s_out' = Append(s_out, [seg |-> s, src |-> s_si])
                        /\ UNCHANGED s_pc
                   ELSE IF s_variable
                   THEN LET candidate == SegAnd(s, segment)
                        IN  /\ s_out' = IF DurationOf(candidate) >= s_min_duration
                                        THEN Append(s_out, [seg |-> candidate,
                                                            src |-> s_si])
                                        ELSE s_out
                            /\ s_pc' = "for"
                   ELSE UNCHANGED <<s_pc, s_out>>
    /\ UNCHANGED <<s_si, s_kept>>
    /\ SegFrame

\* Mutant: start times up to the end of the segment.
StartsToTheEnd(segment, duration) == segment.start..segment.end

\* random_subsegment: t = segment.start + random.random() * (segment.duration
\* - duration), with random.random() in [0, 1): the ticks of the interval
\* between segment.start and segment.end - duration.
SubsegmentStarts(segment, duration) ==
    LET room == DurationOf(segment) - duration
    IN  IF room >= 0 THEN segment.start..(segment.start + room)
        ELSE (segment.start + room)..segment.start

\* RandomSegments: one turn of `for segment in random_segment(segments)`.
\* Only the segment yielded last is kept.
RandDraw ==
    /\ s_pc = "draw"
    /\ \E k \in 1..Len(s_kept) :
          LET segment == s_segments[s_kept[k]]
          IN  IF s_duration # 0
              THEN /\ ~(DurationOf(segment) < s_duration)
                   /\ \E t \in SubsegmentStarts(segment, s_duration) :
                         s_out' = <<[seg |-> Seg(t, t + s_duration),
                                     src |-> s_kept[k]]>>
              ELSE s_out' = <<[seg |-> segment, src |-> s_kept[k]]>>
    /\ UNCHANGED <<s_kept, s_si, s_wi, s_pc>>
    /\ SegFrame

NextSegments == SegStart \/ SlideSegment \/ SlideWindow \/ RandDraw
SpecSegments == InitSegments /\ [][NextSegments]_vars

\* ------------------------------------------------------------- bufferize
\* SlidingWindow.samples(from_duration, mode='center'):
\* int(np.rint(from_duration / step)), halves rounded to the even integer.
Rint(a, b) ==
    LET q == a \div b
        r == a % b
    IN  IF 2 * r < b THEN q
        ELSE IF 2 * r > b THEN q + 1
        ELSE IF q % 2 = 0 THEN q ELSE q + 1
Samples(sliding_window, from_duration) == Rint(from_duration, sliding_window.step)

\* The i-th item (from 1) of the source: its frame; its data is numbered i.
SourceFrame(i) ==
    Seg((i - 1) * b_sliding_window.step,
        (i - 1) * b_sliding_window.step + b_sliding_window.duration)

\* deque([], maxlen).append(x)
DequeAppend(d, x, maxlen) ==
    IF maxlen = 0 THEN <<>>
    ELSE IF Len(d) = maxlen THEN Append(Tail(d), x)
    ELSE Append(d, x)

\* bufferize(source, target) with process_func=None, agg_func=None.  The
\* target lasts at least one step of the source.
InitBuffer ==
    /\ b_frames \in 0..MaxFrames
    /\ \E d \in 1..MaxStep, st \in 1..MaxStep :
          b_sliding_window = [duration |-> d, step |-> st, end |-> 0]
    /\ \E d \in 1..MaxWin, st \in 1..MaxStep, e \in 1..MaxTime :
          /\ d >= b_sliding_window.step
          /\ b_target = [duration |-> d, step |-> st, end |-> e]
    /\ generator_stop \in BOOLEAN
    /\ buffer_size = 0 /\ frame_buffer = <<>> /\ data_buffer = <<>>
    /\ b_taken = 0 /\ b_i = 0 /\ b_incomplete = FALSE /\ b_out = <<>>
    /\ b_pc = "start"
    /\ signature_in = Terminal("segment")
    /\ pc = "bufferize"
    /\ BatchIdle /\ BaseIdle /\ FileIdle /\ OtherIdle
    /\ ThreadIdle /\ IndexIdle /\ TripletIdle /\ SegIdle /\ CheckIdle

BufFrame == UNCHANGED <<batchVars, baseVars, fileVars, otherVars, threadVars,
                        indexVars, tripletVars, segVars, checkVars, b_frames,
                        b_sliding_window, b_target, generator_stop>>

\* A StopIteration leaving the body of the generator: the end of the
\* iteration, or RuntimeError where generator_stop is in force.
StopIterationInGenerator(stop) == IF stop THEN "RuntimeError" ELSE "ended"

\* First next(): the buffers are made.
BufStart ==
    /\ b_pc = "start"
    /\ buffer_size' = Samples(b_sliding_window, b_target.duration)
    /\ b_pc' = "fill"
    /\ UNCHANGED <<frame_buffer, data_buffer, b_taken, b_i, b_incomplete, b_out>>
    /\ BufFrame

\* `while len(frame_buffer) < buffer_size`: one item more, or the loop ends.
BufFill ==
    /\ b_pc = "fill"
    /\ IF Len(frame_buffer) < buffer_size
       THEN IF b_taken = b_frames
            THEN /\ b_pc' = StopIterationInGenerator(generator_stop)
                 /\ UNCHANGED <<frame_buffer, data_buffer, b_taken>>
            ELSE /\ b_taken' = b_taken + 1
                 /\ frame_buffer' = DequeAppend(frame_buffer, SourceFrame(b_taken + 1),
                                                buffer_size)
                 /\ data_buffer' = DequeAppend(data_buffer, b_taken + 1, buffer_size)
                 /\ UNCHANGED b_pc
       ELSE b_pc' = "for" /\ UNCHANGED <<frame_buffer, data_buffer, b_taken>>
    /\ UNCHANGED <<buffer_size, b_i, b_incomplete, b_out>>
    /\ BufFrame

\* `for i, window in enumerate(target)`: the next window, or the loop ends.
BufWindow ==
    /\ b_pc = "for"
    /\ IF WindowLeft(b_target.step, 0, b_target.end, b_i)
       THEN b_i' = b_i + 1 /\ b_pc' = "while"
       ELSE b_pc' = "after" /\ UNCHANGED b_i
    /\ UNCHANGED <<buffer_size, frame_buffer, data_buffer, b_taken, b_incomplete, b_out>>
    /\ BufFrame

\* `while frame_buffer[-1].end < window.end`: one item more; the source is
\* exhausted (incomplete, break); or the window is covered and is yielded.
BufConsume ==
    /\ b_pc = "while"
    /\ LET window == WindowAt(b_target.duration, b_target.step, 0, b_i - 1)
       IN  IF frame_buffer[Len(frame_buffer)].end < window.end
           THEN IF b_taken = b_frames
                THEN /\ b_incomplete' = TRUE
                     /\ b_pc' = "after"
                     /\ UNCHANGED <<frame_buffer, data_buffer, b_taken, b_out>>
                ELSE /\ b_taken' = b_taken + 1
                     /\ frame_buffer' = DequeAppend(frame_buffer,
                                                    SourceFrame(b_taken + 1), buffer_size)
                     /\ data_buffer' = DequeAppend(data_buffer, b_taken + 1, buffer_size)
                     /\ UNCHANGED <<b_incomplete, b_pc, b_out>>
           ELSE /\ b_out' = Append(b_out, [window |-> window, frames |-> frame_buffer,
                                           data |-> data_buffer])
                /\ b_pc' = "for"
                /\ UNCHANGED <<frame_buffer, data_buffer, b_taken, b_incomplete>>
    /\ UNCHANGED <<buffer_size, b_i>>
    /\ BufFrame

\* After the loop: `if agg_func is None: raise StopIteration()`
BufEnd ==
    /\ b_pc = "after"
    /\ b_pc' = StopIterationInGenerator(generator_stop)
    /\ UNCHANGED <<buffer_size, frame_buffer, data_buffer, b_taken, b_i,
                   b_incomplete, b_out>>
    /\ BufFrame

NextBuffer == BufStart \/ BufFill \/ BufWindow \/ BufConsume \/ BufEnd
SpecBuffer == InitBuffer /\ [][NextBuffer]_vars

\* --------------------------------------------------------- _check_signature
\* type(x): a terminal is a dict too.
PyType(x) == IF x.kind \in {"terminal", "dict"} THEN "dict" ELSE x.kind

\* x.keys() of a dict: a terminal holds the key 'type'.
KeysOf(x) == IF x.kind = "terminal" THEN {"type"}
             ELSE {x.keys[i] : i \in 1..Len(x.keys)}

\* sign_in.keys() != sign_out.keys()
KeyMismatch(sign_in, sign_out) == KeysOf(sign_in) # KeysOf(sign_out)

\* len(sign_in) != len(sign_out)
LengthMismatch(sign_in, sign_out) == Len(sign_in.items) # Len(sign_out.items)

\* The exception _check_signature(sign_in, sign_out) raises, "" if none.
RECURSIVE _check_signature(_, _), CheckKeys(_, _, _), CheckZip(_, _, _)
_check_signature(sign_in, sign_out) ==
    IF PyType(sign_in) = "dict"
    THEN IF sign_in.kind = "terminal" THEN ""
         ELSE IF PyType(sign_out) # "dict" THEN "AttributeError"
         ELSE IF KeyMismatch(sign_in, sign_out) THEN "InputOutputSignatureMismatch"
         ELSE CheckKeys(sign_in, sign_out, 1)
    ELSE IF PyType(sign_in) # PyType(sign_out) THEN "InputOutputSignatureMismatch"
    ELSE IF LengthMismatch(sign_in, sign_out) THEN "InputOutputSignatureMismatch"
    ELSE CheckZip(sign_in.items, sign_out.items, 1)

\* `for key in sign_out: self._check_signature(sign_in[key], sign_out[key])`
CheckKeys(sign_in, sign_out, i) ==
    IF i > Len(sign_out.keys) THEN ""
    ELSE LET key == sign_out.keys[i]
             r == _check_signature(sign_in.items[KeyIndex(sign_in.keys, key)],
                                   sign_out.items[i])
         IN  IF r # "" THEN r ELSE CheckKeys(sign_in, sign_out, i + 1)

\* `for si, so in zip(sign_in, sign_out): self._check_signature(si, so)`
CheckZip(items_in, items_out, i) ==
    IF i > Min(Len(items_in), Len(items_out)) THEN ""
    ELSE LET r == _check_signature(items_in[i], items_out[i])
         IN  IF r # "" THEN r ELSE CheckZip(items_in, items_out, i + 1)

\* Signature trees of n nodes: terminals, lists, tuples and dicts whose keys
\* are taken among KeyNames.
KeyNames == {"a", "b"}
KeySeqs(n) == {ks \in [1..n -> KeyNames] : \A i, j \in 1..n : i # j => ks[i] # ks[j]}
RECURSIVE TreesOfSize(_, _), ChildSeqs(_, _)
TreesOfSize(n, leaf) ==
    (IF n = 1 THEN {leaf} ELSE {})
    \cup {PyList(cs) : cs \in ChildSeqs(n - 1, leaf)}
    \cup {PyTuple(cs) : cs \in ChildSeqs(n - 1, leaf)}
    \cup UNION {{PyDict(ks, cs) : ks \in KeySeqs(Len(cs))} : cs \in ChildSeqs(n - 1, leaf)}
ChildSeqs(m, leaf) ==
    IF m = 0 THEN {<<>>}
    ELSE UNION {{<<t>> \o rest : t \in TreesOfSize(k, leaf),
                                 rest \in ChildSeqs(m - k, leaf)} : k \in 1..m}
Trees(leaf) == UNION {TreesOfSize(n, leaf) : n \in 1..MaxNodes}

\* A generator with some signature is about to be wrapped.
InitCheck ==
    /\ signature_in \in Trees(Terminal("segment"))
    /\ c_sign_out = Value(0) /\ c_result = "" /\ c_pc = "new"
    /\ pc = "check"
    /\ BatchIdle /\ BaseIdle /\ FileIdle /\ OtherIdle
    /\ ThreadIdle /\ IndexIdle /\ TripletIdle /\ SegIdle /\ BufIdle

CheckFrame == UNCHANGED <<batchVars, baseVars, fileVars, otherVars, threadVars,
                          indexVars, tripletVars, segVars, bufVars>>

\* BaseBatchGenerator.__init__: the signature of the generator is checked
\* against self.signature().
Construct ==
    /\ c_pc = "new"
    /\ c_sign_out' = signature
    /\ c_result' = _check_signature(signature_in, signature)
    /\ c_pc' = IF c_result' = "" THEN "constructed" ELSE "raised"
    /\ CheckFrame

\* _check_signature called with any output signature.
CheckAny ==
    /\ c_pc = "new"
    /\ \E sign_out \in Trees(Terminal("batch")) :
          /\ c_sign_out' = sign_out
          /\ c_result' = _check_signature(signature_in, sign_out)
    /\ c_pc' = "checked"
    /\ CheckFrame

NextCheck == Construct \/ CheckAny
SpecCheck == InitCheck /\ [][NextCheck]_vars

\* ------------------------------------------------------------ claims, Spec
\* The ids of the fragments among the first p items of the stream.
RECURSIVE FragmentIds(_)
FragmentIds(p) ==
    IF p = 0 THEN <<>>
    ELSE IF generator[p] = EndOfBatch THEN FragmentIds(p - 1)
    ELSE Append(FragmentIds(p - 1), p)

LastN(s, n) == IF n >= Len(s) THEN s ELSE SubSeq(s, Len(s) - n + 1, Len(s))

NoSentinel == \A i \in 1..Len(generator) : generator[i] # EndOfBatch

\* Batch b has the tree shape of the output signature and every one of its
\* leaves holds exactly the fragments ids, in that order.
BatchHolds(b, ids) ==
    /\ SameShape(b, signature)
    /\ \A i \in 1..Len(Leaves(b)) :
          Leaves(b)[i].kind = "ndarray" /\ Ids(Leaves(b)[i].items) = ids

\* C1: with batch_size = B > 0 and a stream of n fragments without sentinel,
\* iter_batches yields floor(n/B) batches of exactly B fragments, in stream
\* order, then one batch of the n mod B remaining fragments iff incomplete
\* and n mod B > 0; no batch is empty and no error is raised.
C1_FixedSizeBatches ==
    (self_batch_size > 0 /\ NoSentinel /\ pc # "start") =>
        LET B == self_batch_size
            n == Len(generator)
            last == IF self_incomplete /\ n % B > 0 THEN 1 ELSE 0
        IN  /\ pc # "raised"
            /\ Len(yielded) = IF pc = "done" THEN (n \div B) + last ELSE pos \div B
            /\ \A k \in 1..Len(yielded) :
                  /\ BatchHolds(yielded[k], Range((k - 1) * B + 1, Min(k * B, n)))
                  /\ (k - 1) * B + 1 <= n

C1_Witness ==
    /\ pc = "done" /\ self_batch_size = 2 /\ NoSentinel /\ Len(generator) = 5
    /\ self_incomplete /\ Len(yielded) = 3
    /\ signature_in = SegmentLabel
    /\ BatchHolds(yielded[3], <<5>>)

\* C5: the sentinel flushes the fragments accumulated since the last flush as
\* one batch, whatever their number; it is neither added nor counted; with an
\* empty accumulator it yields nothing; the accumulator and the count restart
\* from empty and zero.
AtSentinel == pc = "loop" /\ pos < Len(generator) /\ generator[pos + 1] = EndOfBatch

C5_AccumulatorIsPending ==
    pc = "loop" =>
        \A a \in 1..Len(heap) :
            Ids(heap[a]) = LastN(FragmentIds(pos), batch_size)

C5_SentinelStep ==
    (AtSentinel /\ pos' = pos + 1) =>
        /\ pc' = "loop"
        /\ batch_size' = 0
        /\ \A a \in 1..Len(heap') : heap'[a] = <<>>
        /\ IF batch_size = 0
           THEN yielded' = yielded
           ELSE /\ Len(yielded') = Len(yielded) + 1
                /\ SubSeq(yielded', 1, Len(yielded)) = yielded
                /\ BatchHolds(yielded'[Len(yielded')],
                              LastN(FragmentIds(pos), batch_size))

C5_SentinelFlushes == [](C5_AccumulatorIsPending) /\ [][C5_SentinelStep]_vars

C5_Witness ==
    /\ pc = "loop" /\ self_batch_size = 2 /\ pos = 3 /\ batch_size = 0
    /\ generator[1] # EndOfBatch
    /\ generator[2] = EndOfBatch /\ generator[3] = EndOfBatch
    /\ Len(yielded) = 1 /\ BatchHolds(yielded[1], <<1>>)

\* -------------------------------------------------------- claims, SpecFile
FileIds(file) == [j \in 1..file.n |-> FragId(file.uri, j)]

\* The ids of the fragments from_file has handed over so far, in order: all
\* those of the files before the current one whose preprocessing succeeded,
\* and the first fpos of the current file.
RECURSIVE Consumed(_)
Consumed(i) ==
    IF i = 0 THEN <<>>
    ELSE Consumed(i - 1) \o
         (IF files[i].fails THEN <<>>
          ELSE IF i = fidx THEN SubSeq(FileIds(files[i]), 1, fpos)
          ELSE FileIds(files[i]))

\* The ids held by the first leaf of a packed batch.
BatchIds(b) == Ids(Leaves(b)[1].items)

RECURSIVE FlatIds(_)
FlatIds(batches) ==
    IF batches = <<>> THEN <<>>
    ELSE FlatIds(SubSeq(batches, 1, Len(batches) - 1)) \o BatchIds(batches[Len(batches)])

NoFailure == \A i \in 1..Len(files) : ~files[i].fails

\* C2: in mono-batch mode (batch_size < 1), over files whose preprocessing
\* succeeds, exactly one batch is yielded per file, at the end of the file,
\* holding exactly that file's fragments in order, whatever their number
\* (zero included); no error is raised and nothing is yielded after the last
\* file.
C2_OneBatchPerFile ==
    (self_batch_size < 1 /\ NoFailure /\ pc # "start") =>
        /\ pc # "raised"
        /\ Len(yielded) = IF pc = "fragments" THEN fidx - 1 ELSE fidx
        /\ \A k \in 1..Len(yielded) : BatchHolds(yielded[k], FileIds(files[k]))

\* What does hold of mono-batch mode: one batch per file as long as no file
\* is empty.
C2_NonEmptyFiles ==
    (self_batch_size < 1 /\ NoFailure /\ pc # "start"
        /\ \A i \in 1..Len(files) : files[i].n > 0) => C2_OneBatchPerFile

\* C3: with robust=True a file whose preprocessing raises is skipped with a
\* warning: the accumulator, the count and the batches are left as they were,
\* the next file is taken, and what has been batched is exactly the
\* fragments of the other files, in order.
C3_Content ==
    (robust /\ pc # "start") =>
        /\ Consumed(fidx) =
              IF pc = "done" /\ incomplete /\ self_batch_size > 0
              THEN FlatIds(yielded)
              ELSE FlatIds(yielded) \o Ids(heap[1])
        /\ \A k \in 1..Len(yielded) : BatchHolds(yielded[k], BatchIds(yielded[k]))
        /\ \A a \in 1..Len(heap) : heap[a] = heap[1]
        /\ batch_size = Len(heap[1])
        /\ warned = {files[i].uri : i \in {j \in 1..fidx : files[j].fails}}

C3_SkipStep ==
    (robust /\ pc = "files" /\ fidx' # fidx /\ current_file'.fails) =>
        /\ pc' = "files"
        /\ UNCHANGED <<batch_, heap, batch_size, yielded>>
        /\ current_file'.uri \in warned'

C3_RobustSkips == [](C3_Content) /\ [][C3_SkipStep]_vars

C3_Witness ==
    /\ pc = "done" /\ robust /\ self_batch_size = 2 /\ Len(files) = 3
    /\ files[1] = FileRecord(1, 2, FALSE)
    /\ files[2] = FileRecord(2, 2, TRUE)
    /\ files[3] = FileRecord(3, 2, FALSE)
    /\ warned = {2}
    /\ Len(yielded) = 2
    /\ BatchHolds(yielded[1], FileIds(files[1]))
    /\ BatchHolds(yielded[2], FileIds(files[3]))

\* C4: with robust=False a failing preprocess ends the iteration with the
\* exception: the full batches of the earlier files have been yielded, and
\* nothing is yielded afterwards, not even a final incomplete batch.
C4_Earlier ==
    (~robust /\ pc = "raised" /\ current_file.fails /\ self_batch_size > 0) =>
        /\ Len(yielded) = Len(Consumed(fidx)) \div self_batch_size
        /\ FlatIds(yielded) = SubSeq(Consumed(fidx), 1, Len(yielded) * self_batch_size)

C4_RaiseStep ==
    /\ (~robust /\ pc = "files" /\ fidx' # fidx /\ current_file'.fails) =>
          (pc' = "raised" /\ yielded' = yielded /\ warned' = warned)
    /\ pc = "raised" => (pc' = "raised" /\ yielded' = yielded)

C4_FailurePropagates == [](C4_Earlier) /\ [][C4_RaiseStep]_vars

C4_Witness ==
    /\ pc = "raised" /\ ~robust /\ incomplete /\ current_file.fails
    /\ self_batch_size = 2 /\ batch_size = 1 /\ Len(yielded) = 1
    /\ fidx = 3 /\ Len(files) = 3

\* ----------------------------------------------------- claims, SpecForever
Uris(s) == [i \in 1..Len(s) |-> s[i].uri]

\* C6: in infinite mode over a non-empty list the files are visited in
\* passes, each pass visiting every file of the list exactly once, and the
\* visits never end (unless an exception ends the iteration); over an empty
\* list the iteration ends without yielding anything.
C6_Pass ==
    (pc # "start" /\ fidx > 0) =>
        /\ Len(visited) = fidx
        /\ fidx <= Len(files)
        /\ \A a, b \in 1..Len(visited) : a # b => visited[a] # visited[b]
        /\ \A a \in 1..Len(visited) : \E i \in 1..Len(files) : files[i].uri = visited[a]
        /\ Len(saved) = Len(files)
        /\ pc # "done"

C6_EmptyList == files = <<>> => (yielded = <<>> /\ pc \in {"start", "files", "done"})

\* A pass begins only at the start or once the previous pass has visited the
\* whole list.
C6_PassStep ==
    pass_parity' # pass_parity =>
        /\ fidx = 0 \/ fidx = Len(files)
        /\ fidx' = 1

\* Passes keep beginning: the parity of their number takes value p again.
C6_Going(p) == files = <<>> \/ pc = "raised" \/ pass_parity = p

C6_LoopsForever ==
    /\ [](C6_Pass /\ C6_EmptyList)
    /\ [][C6_PassStep]_vars
    /\ []<>(files # <<>> \/ pc = "done")
    /\ []<>C6_Going(0)
    /\ []<>C6_Going(1)

C6_Witness ==
    /\ Len(files) = 2 /\ fidx = 2 /\ pass_parity = 0 /\ prev_order # <<>>
    /\ visited \in {<<1, 2>>, <<2, 1>>} /\ pc = "files"

\* C7 as stated: no two passes (in particular no two consecutive passes)
\* have the same order.
C7_NoTwoPassesAlike ==
    (Len(files) >= 2 /\ prev_order # <<>>) => saved # prev_order

\* C7 amended: the list is shuffled again before every pass, so the order of
\* a pass is some permutation of the order of the pass before it, the same
\* one or another.
C7_ReshuffledEveryPass ==
    (Len(files) >= 2 /\ prev_order # <<>>) => saved \in Orderings(prev_order)

C7_Witness ==
    /\ Len(files) >= 2 /\ prev_order # <<>> /\ saved # prev_order
    /\ fidx = Len(files)

\* ---------------------------------------------------- claims, SpecAssemble
\* Fragment f has the tree shape of the signature: as many components as the
\* signature at every level, the keys of the signature, and one
\* non-composite value per terminal.
RECURSIVE Matches(_, _)
Matches(f, sig) ==
    IF sig.kind = "terminal" THEN f.kind = "value"
    ELSE IF sig.kind = "dict"
    THEN /\ f.kind = "dict"
         /\ Len(f.keys) = Len(sig.keys)
         /\ \A i \in 1..Len(sig.keys) :
               /\ KeyIndex(f.keys, sig.keys[i]) # 0
               /\ Matches(f.items[KeyIndex(f.keys, sig.keys[i])], sig.items[i])
    ELSE /\ f.kind \in {"list", "tuple"}
         /\ Len(f.items) = Len(sig.items)
         /\ \A i \in 1..Len(sig.items) : Matches(f.items[i], sig.items[i])

AllMatch == \A i \in 1..Len(given) : Matches(given[i], signature_in)

\* The ids terminal j must hold once the fragments 1..k were added.
Expected(j, k) == [i \in 1..k |-> LeafId(j, i)]

C9_MismatchRejected ==
    /\ ~AllMatch => pc = "raised"
    /\ pc \in {"adding", "packed"} =>
          \A a, b \in 1..Len(heap) : Len(heap[a]) = Len(heap[b])

\* ----------------------------------------------------- claims, SpecSampler
\* C10: every fragment a sampler yields has exactly the tree shape of its
\* signature(), whatever its options: as many components at every level and
\* one non-composite value per terminal.
C10_YieldsMatchSignature == pos > 0 => Matches(sample, signature_in)

\* What does hold: the yields match the signature for every sampler and
\* option but the segment triplets and pairs with yield_label=True.
C10_WithoutLabels ==
    (pos > 0 /\ ~(sampler.yield_label
                  /\ sampler.name \in {"RandomSegmentTriplets", "RandomSegmentPairs"}))
        => Matches(sample, signature_in)

\* ------------------------------------------------------ claims, SpecThread
\* The items the wrapped iterator produces: all of them, or those before the
\* first one whose making raises.
RECURSIVE Produced(_)
Produced(g) ==
    IF g = <<>> \/ GeneratorNext(Head(g)).err THEN <<>>
    ELSE <<GeneratorNext(Head(g)).value>> \o Produced(Tail(g))

IsPrefix(a, b) == Len(a) <= Len(b) /\ a = SubSeq(b, 1, Len(a))

\* C11: the consumer receives exactly the items the wrapped iterator
\* produces, each once and in order, whatever their values, and
\* StopIteration comes only after the last of them.
C11_DeliversAll ==
    /\ IsPrefix(delivered, Produced(bg_generator))
    /\ next_pc = "stopped" => delivered = Produced(bg_generator)

\* Items taken from the wrapped generator and not yet handed to the consumer.
Held ==
    Len(queue_) - (IF run_pc = "finished" THEN 1 ELSE 0)
                + (IF run_pc = "put" THEN 1 ELSE 0)

\* C12: with max_prefetch = k >= 1 at most k items taken from the wrapped
\* generator are held without having been handed to the consumer.
C12_AtMostPrefetchHeld == max_prefetch >= 1 => Held <= max_prefetch

\* What does hold: the queue never holds more than k, and one more item is
\* in the hands of the blocked thread.
C12_QueueBounded ==
    max_prefetch >= 1 => Len(queue_) <= max_prefetch /\ Held <= max_prefetch + 1

\* C14: an error raised while a batch is made in the thread reaches the
\* consumer: its next() raises, it is not left waiting on the empty queue.
C14_ErrorSurfaces ==
    (run_pc = "crashed" /\ queue_ = <<>> /\ next_pc \notin {"idle", "stopped"})
        => next_pc = "raised"

\* ------------------------------------------------------- claims, SpecIndex
\* y[i] of every output, as a position in unique.
OutLabels == LET inv == Inverse(y_) IN [j \in 1..Len(out) |-> inv[out[j].i]]
Occurrences(lab, l, a, b) == Cardinality({j \in a..b : lab[j] = l})
EnoughSamples == LET c == Counts(y_) IN \A l \in 1..Len(c) : c[l] >= per_label
Window == per_label * n_labels

\* C15 as stated: when every label has at least per_label samples, any
\* per_label * n_labels consecutive outputs hold every label exactly
\* per_label times.
C15_AnyWindow ==
    EnoughSamples =>
        LET lab == OutLabels
            n == n_labels
            w == per_label * n
        IN  \A a \in 1..Len(out) :
               a + w - 1 <= Len(out) =>
                  \A l \in 1..n : Occurrences(lab, l, a, a + w - 1) = per_label

\* C15 as amended: the first per_label * n_labels outputs hold every label
\* exactly per_label times, and every round holds every label exactly
\* per_label times but the label it skipped, which is the first label drawn
\* and the last label of the round before.
C15_Rounds ==
    EnoughSamples =>
        LET lab == OutLabels
            n == n_labels
            w == per_label * n
        IN  /\ Len(out) >= w =>
                  \A l \in 1..n : Occurrences(lab, l, 1, w) = per_label
            /\ Len(round_out) <= Len(out)
            /\ \A j \in 1..Len(round_out) :
                  lab[Len(out) - Len(round_out) + j] = round_out[j]
            /\ (index_pc = "while" /\ round_order # <<>>) =>
                  \A l \in 1..n :
                     Cardinality({j \in 1..Len(round_out) : round_out[j] = l})
                        = IF l = skipped THEN 0 ELSE per_label
            /\ (index_pc \in {"for", "yield"} /\ k_ >= 1) =>
                  (skipped # 0 <=> round_order[1] = previous_label)
            /\ skipped # 0 => skipped = round_order[1]

C15_Witness ==
    /\ EnoughSamples /\ n_labels = 3 /\ per_label = 1
    /\ index_pc = "while" /\ skipped # 0 /\ Len(round_out) = 2
    /\ Occurrences(OutLabels, skipped, Len(out) - 2, Len(out)) = 1
    /\ \E l \in 1..n_labels : Occurrences(OutLabels, l, Len(out) - 3, Len(out) - 1) = 2

\* The number of indices one visit to a label with c samples yields.
RunLength(c) == IF repeat THEN per_label ELSE Min(per_label, c)
IsRun(lab, a, b) ==
    /\ \A j \in a..b : lab[j] = lab[a]
    /\ a = 1 \/ lab[a - 1] # lab[a]
    /\ b = Len(lab) \/ lab[b + 1] # lab[a]
too_few_samples ==
    LET c == Counts(y_) IN Cardinality({l \in 1..Len(c) : c[l] < per_label})

\* C16: the outputs come in runs of equal y[i]; a run holds per_label
\* indices when repeat, min(per_label, samples of the label) otherwise (the
\* run the outputs end with may still be growing); two consecutive visits
\* never are to the same label, so no run is longer; the label yielded with
\* i is y[i]; labels with too few samples raise no error.
C16_Runs ==
    /\ index_pc # "raised"
    /\ \A j \in 1..Len(out) :
          /\ out[j].i \in 1..Len(y_)
          /\ out[j].label = IF return_label THEN y_[out[j].i] ELSE 0
    /\ LET lab == OutLabels
           c == Counts(y_)
       IN  \A a \in 1..Len(out) :
              (a = 1 \/ lab[a - 1] # lab[a]) =>
                  LET r == RunLength(c[lab[a]])
                  IN  /\ \A j \in a..Min(a + r - 1, Len(out)) : lab[j] = lab[a]
                      /\ a + r <= Len(out) => lab[a + r] # lab[a]

C16_Witness ==
    /\ y_ = <<3, 1>> /\ per_label = 2 /\ repeat /\ return_label
    /\ too_few_samples = 2
    /\ skipped # 0 /\ index_pc = "yield"
    /\ Len(out) = 5 /\ IsRun(OutLabels, 1, 2) /\ IsRun(OutLabels, 3, 4)
    /\ out[1].label = 1 /\ out[3].label = 3
    /\ out[1].i = out[2].i /\ out[5].i = out[1].i

\* ----------------------------------------------- claims, SpecThreadForever
Blocked == run_pc = "put" /\ Len(queue_) = max_prefetch

\* C13: once the consumer of an endless generator with a bounded queue has
\* stopped pulling, the thread ends up blocked on the full queue and stays
\* so: no further item is taken and the queue no longer changes.
C13_BlocksForever ==
    /\ (next_pc \in {"quit", "stopped"}) ~> [](Blocked)
    /\ [][(next_pc \in {"quit", "stopped"} /\ Blocked)
             => UNCHANGED <<queue_, run_item, run_pc>>]_vars

C13_Witness ==
    /\ next_pc = "quit" /\ Blocked /\ max_prefetch = MaxPrefetch
    /\ delivered # <<>>

\* ---------------------------------------------------- claims, SpecTriplets
\* The label of the track a yielded item comes from.
LabelOf(x) == annotation[x.segment]
QualifyingLabels == Labels(Qualifying)
Pairs == t_sampler = "RandomSegmentPairs"

\* C17: in every triplet yielded the anchor and the positive come from
\* tracks of one label and the negative from a track of another label; every
\* triplet gives two pairs, (anchor, positive) tagged True then
\* (anchor, negative) tagged False, so a pair is tagged True exactly when
\* its two segments come from tracks of the same label.
C17_TripletLabels ==
    /\ t_last # <<>> =>
          /\ LabelOf(t_last[1]) = LabelOf(t_last[2])
          /\ LabelOf(t_last[3]) # LabelOf(t_last[1])
    /\ ~Pairs => t_tags = <<>> /\ t_pair = <<>>
    /\ Pairs =>
          /\ \A j \in 1..Len(t_tags) : t_tags[j] = (j % 2 = 1)
          /\ Len(t_tags) = 2 * Len(t_anchors) - (IF t_pc = "second" THEN 1 ELSE 0)
          /\ t_pair # <<>> =>
                /\ t_pair[2] <=> LabelOf(t_pair[1][1]) = LabelOf(t_pair[1][2])
                /\ t_pair[2] => t_pair[1] = <<t_last[1], t_last[2]>>
                /\ ~t_pair[2] =>
                      /\ t_pair[1] = <<t_last[1], t_last[3]>>
                      /\ t_prev_pair = <<<<t_last[1], t_last[2]>>, TRUE>>

C17_Witness ==
    /\ Pairs /\ t_duration = 2 /\ Len(t_tags) = 4
    /\ t_pair # <<>> /\ ~t_pair[2]
    /\ t_pair[1][1].sub /\ t_pair[1][1].segment # t_pair[1][2].segment

\* Each label, in order, per_label times.
ExpectedAnchors ==
    [j \in 1..(t_per_label * Len(QualifyingLabels)) |->
        QualifyingLabels[((j - 1) \div t_per_label) + 1]]

\* C18: on an annotation with L >= 2 qualifying labels, one cycle of triplet
\* sampling yields per_label consecutive triplets anchored on each label
\* before advancing to the next: per_label * L triplets in all.
C18_QuotaPerLabel ==
    Len(QualifyingLabels) >= 2 =>
        /\ t_pc # "raised"
        /\ IsPrefix(t_anchors, ExpectedAnchors)
        /\ t_pc = "done" => t_anchors = ExpectedAnchors

C18_Witness ==
    /\ t_sampler = "RandomTrackTriplets" /\ Len(QualifyingLabels) = 2
    /\ t_per_label = MaxQuota /\ t_pc = "done"
    /\ Len(t_anchors) = 2 * MaxQuota
    /\ t_anchors[MaxQuota] # t_anchors[MaxQuota + 1]

\* C19 as stated: on an annotation with at least two qualifying labels the
\* stream of triplets never ends.
C19_NeverEnds ==
    (Len(QualifyingLabels) >= 2 /\ ~Pairs) => t_pc # "done"

\* C19 as amended: once the quota of the last label is emitted the sampler
\* ends; it has then visited every label once and yields nothing more.
C19_EndsAfterOnePass ==
    /\ []((Len(QualifyingLabels) >= 2 /\ t_pc = "done") =>
            \A l \in 1..MaxTrackLabels :
               Cardinality({j \in 1..Len(t_anchors) : t_anchors[j] = l})
                  = IF \E s \in Qualifying : annotation[s] = l THEN t_per_label ELSE 0)
    /\ [][(t_pc = "label" /\ t_li = Len(t_labels)) => t_pc' = "done"]_vars
    /\ [][t_pc = "done" => (t_pc' = "done" /\ UNCHANGED <<t_last, t_anchors>>)]_vars

C19_Witness ==
    /\ t_sampler = "RandomSegmentTriplets" /\ t_duration = 2
    /\ Len(QualifyingLabels) = 2 /\ t_pc = "done"
    /\ t_li = 2 /\ Len(t_anchors) = 2 * t_per_label

\* C20: with fewer than two qualifying labels, triplet and pair sampling
\* yields nothing and raises nothing.
C20_FewLabelsYieldNothing ==
    Len(QualifyingLabels) < 2 =>
        /\ t_pc # "raised"
        /\ t_last = <<>> /\ t_pair = <<>>

\* What does hold: the segment samplers return at once.
C20_SegmentSamplers ==
    (Len(QualifyingLabels) < 2 /\ t_sampler # "RandomTrackTriplets") =>
        /\ t_pc \in {"start", "done"}
        /\ t_last = <<>> /\ t_pair = <<>>

\* ---------------------------------------------------- claims, SpecSegments
\* The windows of duration w every step from the start of `segment` that
\* end within it: floor((D - w) / step) + 1 of them when D >= w.
FullWindowCount(segment, w, step) ==
    IF DurationOf(segment) >= w THEN (DurationOf(segment) - w) \div step + 1 ELSE 0
FullWindows(segment, w, step) ==
    [j \in 1..FullWindowCount(segment, w, step) |->
        Seg(segment.start + (j - 1) * step, segment.start + (j - 1) * step + w)]

\* The segments yielded out of the source at position p.
RECURSIVE YieldedFrom(_, _)
YieldedFrom(o, p) ==
    IF o = <<>> THEN <<>>
    ELSE (IF Head(o).src = p THEN <<Head(o).seg>> ELSE <<>>) \o YieldedFrom(Tail(o), p)

\* C21: with min_duration=None, a single segment of duration D >= w yields
\* exactly floor((D - w) / s) + 1 windows of duration w, contained in the
\* segment, the first at its start and each s after the one before; a
\* segment of duration D < w yields nothing.
C21_FullWindows ==
    (s_sampler = "SlidingSegments" /\ ~s_variable /\ Len(s_segments) = 1) =>
        LET expected == FullWindows(s_segments[1], s_duration, s_step)
            yielded_ == YieldedFrom(s_out, 1)
        IN  /\ Len(yielded_) = Len(s_out)
            /\ IsPrefix(yielded_, expected)
            /\ s_pc = "done" => yielded_ = expected
            /\ \A j \in 1..Len(yielded_) :
                  /\ DurationOf(yielded_[j]) = s_duration
                  /\ s_segments[1].start <= yielded_[j].start
                  /\ yielded_[j].end <= s_segments[1].end
                  /\ j > 1 => yielded_[j].start = yielded_[j - 1].start + s_step

C21_Witness ==
    /\ s_sampler = "SlidingSegments" /\ ~s_variable /\ s_kind = "Segment"
    /\ s_pc = "done" /\ Len(s_out) = 2 /\ s_step = 1 /\ s_duration = 2
    /\ s_segments[1] = Seg(0, 3) /\ s_wi = 3

\* What one source segment yields when variable length is enabled.
ExpectedVariable(segment, w, step, m) ==
    LET D == DurationOf(segment)
        n == FullWindowCount(segment, w, step)
        overflowing == segment.start + n * step
    IN  IF D < m THEN <<>>
        ELSE IF D < w THEN <<segment>>
        ELSE FullWindows(segment, w, step)
             \o (IF overflowing < segment.end /\ segment.end - overflowing >= m
                 THEN <<Seg(overflowing, segment.end)>> ELSE <<>>)

\* C22: with min_duration = m <= duration = w, a source segment shorter
\* than m yields nothing, one with m <= D < w is yielded whole once, one
\* with D >= w yields its full windows and then the first overflowing
\* window clipped to the segment if that is at least m long; every segment
\* yielded lies within its source and lasts between m and w, and a clipped
\* window is the last one of its source.
C22_VariableLength ==
    (s_sampler = "SlidingSegments" /\ s_variable /\ s_min_duration <= s_duration) =>
        /\ \A p \in 1..Len(s_segments) :
              LET expected == ExpectedVariable(s_segments[p], s_duration, s_step,
                                               s_min_duration)
                  yielded_ == YieldedFrom(s_out, p)
              IN  /\ IsPrefix(yielded_, expected)
                  /\ (p < s_si \/ s_pc = "done") => yielded_ = expected
                  /\ \A j \in 1..Len(yielded_) :
                        (DurationOf(yielded_[j]) < s_duration
                            /\ DurationOf(s_segments[p]) >= s_duration)
                        => j = Len(expected)
        /\ \A j \in 1..Len(s_out) :
              /\ s_out[j].src \in 1..Len(s_segments)
              /\ SegContains(s_segments[s_out[j].src], s_out[j].seg)
              /\ DurationOf(s_out[j].seg) >= s_min_duration
              /\ DurationOf(s_out[j].seg) <= s_duration
              /\ j > 1 => s_out[j - 1].src <= s_out[j].src

C22_Witness ==
    /\ s_sampler = "SlidingSegments" /\ s_variable /\ s_min_duration < s_duration
    /\ s_pc = "done" /\ Len(s_segments) = 2 /\ Len(s_out) = 3
    /\ DurationOf(s_out[1].seg) = s_duration
    /\ DurationOf(s_out[2].seg) < s_duration /\ s_out[2].src = 1
    /\ DurationOf(s_segments[1]) > s_duration
    /\ DurationOf(s_segments[2]) < s_duration /\ s_out[3].src = 2

\* C23: with a duration d > 0, every segment RandomSegments yields lasts
\* exactly d and lies within one segment of the source that itself lasts at
\* least d; segments too short for d are never chosen.
C23_NeverShorter ==
    (s_sampler = "RandomSegments" /\ s_duration > 0) =>
        \A j \in 1..Len(s_out) :
           /\ s_out[j].src \in 1..Len(s_segments)
           /\ DurationOf(s_out[j].seg) = s_duration
           /\ s_segments[s_out[j].src].start <= s_out[j].seg.start
           /\ s_out[j].seg.end <= s_segments[s_out[j].src].end
           /\ DurationOf(s_segments[s_out[j].src]) >= s_duration

C23_Witness ==
    /\ s_sampler = "RandomSegments" /\ s_duration = 2 /\ s_kind = "Annotation"
    /\ Len(s_segments) = 2 /\ DurationOf(s_segments[1]) = 1
    /\ s_out # <<>> /\ s_out[1].src = 2 /\ s_out[1].seg.start > s_segments[2].start

\* The duration a source segment has to reach, and the ways iter_segments
\* ends with an error.
RequiredDuration == IF s_sampler = "SlidingSegments" THEN s_min_duration ELSE s_duration
TooShort(p) == DurationOf(s_segments[p]) < RequiredDuration
SegRaised == s_pc \in {"ValueError", "NameError"}

\* C24 as stated: a too short source segment is a fatal error when the source
\* is a single Segment, and is filtered out without an error when the source
\* is a Timeline or an Annotation, however many of its segments are too
\* short, for both samplers.
C24_FatalOrFiltered ==
    (s_pc # "start" /\ \E p \in 1..Len(s_segments) : TooShort(p)) =>
        /\ s_kind = "Segment" => SegRaised
        /\ s_kind \in {"Timeline", "Annotation"} => ~SegRaised

\* C24 as amended: SlidingSegments skips the too short segments without an
\* error whatever the source is; RandomSegments leaves out the segments that
\* are not longer than its duration and raises ValueError exactly when no
\* segment of the source is longer, whatever the source is.
C24_SkippedOrNoneLeft ==
    (s_pc # "start" /\ s_kind # "float") =>
        /\ s_sampler = "SlidingSegments" =>
              /\ ~SegRaised
              /\ \A j \in 1..Len(s_out) : ~TooShort(s_out[j].src)
        /\ s_sampler = "RandomSegments" =>
              /\ s_pc = "ValueError" <=>
                    \A p \in 1..Len(s_segments) :
                       DurationOf(s_segments[p]) <= s_duration
              /\ s_pc # "NameError"
              /\ \A j \in 1..Len(s_out) :
                    DurationOf(s_segments[s_out[j].src]) > s_duration

C24_Witness ==
    /\ s_sampler = "RandomSegments" /\ s_kind = "Timeline" /\ Len(s_segments) = 2
    /\ TooShort(1) /\ TooShort(2) /\ s_pc = "ValueError"

\* ------------------------------------------------------ claims, SpecBuffer
TargetWindow(j) == WindowAt(b_target.duration, b_target.step, 0, j - 1)
TargetWindows == {j \in 1..(MaxTime + 1) : (j - 1) * b_target.step < b_target.end}
\* The windows the source reaches the end of.
CoveredWindows ==
    {j \in TargetWindows :
        /\ b_frames >= Samples(b_sliding_window, b_target.duration)
        /\ SourceFrame(b_frames).end >= TargetWindow(j).end}

BuffersBounded ==
    /\ Len(frame_buffer) = Len(data_buffer)
    /\ Len(frame_buffer) <= buffer_size
YieldsInOrder ==
    \A j \in 1..Len(b_out) :
       /\ b_out[j].window = TargetWindow(j)
       /\ j \in CoveredWindows
       /\ b_out[j].frames # <<>>
       /\ b_out[j].frames[Len(b_out[j].frames)].end >= b_out[j].window.end
       /\ Len(b_out[j].data) = Len(b_out[j].frames)
       /\ \A k \in 1..Len(b_out[j].data) :
             b_out[j].frames[k] = SourceFrame(b_out[j].data[k])
EndsAtFirstUncovered ==
    b_pc \in {"ended", "RuntimeError"} => Len(b_out) = Cardinality(CoveredWindows)

\* C25: one (window, buffer) item per target window, in order, each once the
\* buffered frames reach its end, with both buffers of the same length and
\* never longer than the buffer size; when the source is exhausted before a
\* window is covered nothing is yielded for it and the stream ends normally,
\* without an exception for the consumer, and likewise after the last window.
C25_EndsNormally ==
    /\ BuffersBounded
    /\ YieldsInOrder
    /\ EndsAtFirstUncovered
    /\ b_pc # "RuntimeError"

\* What does hold: all of it but the normal end, which needs an interpreter
\* where a StopIteration raised inside a generator still ends it silently.
C25_ButTheEnd ==
    /\ BuffersBounded
    /\ YieldsInOrder
    /\ EndsAtFirstUncovered
    /\ b_pc = "RuntimeError" => generator_stop

\* ------------------------------------------------------- claims, SpecCheck
\* Whether some pair of corresponding nodes, reached before a terminal input
\* node, mismatches: different kinds, different key sets, different lengths.
RECURSIVE Mismatches(_, _)
Mismatches(sign_in, sign_out) ==
    IF sign_in.kind = "terminal" THEN FALSE
    ELSE \/ sign_in.kind # sign_out.kind
         \/ sign_in.kind = "dict" /\ KeysOf(sign_in) # KeysOf(sign_out)
         \/ IsSeqKind(sign_in) /\ Len(sign_in.items) # Len(sign_out.items)
         \/ /\ sign_in.kind = "dict"
            /\ \E i \in 1..Len(sign_in.keys) :
                  Mismatches(sign_in.items[i],
                             sign_out.items[KeyIndex(sign_out.keys, sign_in.keys[i])])
         \/ /\ IsSeqKind(sign_in)
            /\ \E i \in 1..Len(sign_in.items) :
                  Mismatches(sign_in.items[i], sign_out.items[i])

\* C26: _check_signature raises InputOutputSignatureMismatch exactly when
\* some pair of corresponding nodes reached before a terminal input node has
\* different key sets, different container kinds or different lengths; a
\* terminal input node is accepted whatever the output node is.
C26_MismatchExactly ==
    c_pc = "checked" =>
        (c_result = "InputOutputSignatureMismatch"
            <=> Mismatches(signature_in, c_sign_out))

\* What does hold: an exception is raised exactly then, but it is not always
\* InputOutputSignatureMismatch.
C26_RaisesExactly ==
    c_pc = "checked" =>
        /\ c_result # "" <=> Mismatches(signature_in, c_sign_out)
        /\ c_result \in {"", "InputOutputSignatureMismatch", "AttributeError"}

\* C28: the construction-time check of the signature of the generator
\* against the output signature derived from it never raises.
C28_ConstructionPasses ==
    /\ c_pc # "raised"
    /\ c_pc = "constructed" =>
          /\ c_result = ""
          /\ c_sign_out = _batch_signature(signature_in)
          /\ ~Mismatches(signature_in, c_sign_out)

C28_Witness ==
    /\ c_pc = "constructed" /\ signature_in.kind = "dict"
    /\ Len(signature_in.items) = 1 /\ signature_in.items[1].kind = "terminal"
    /\ c_sign_out.items[1].type = "batch"

\* ----------------------------------------------------- claims, SpecCompare
\* What iter_batches, with self.incomplete set to the `incomplete` given to
\* __call__, makes of the items of all the files visited.
Reference == iter_batches(Concatenation(Len(files)), incomplete)

\* __call__ has ended, normally or by an exception of the assembler.
CallOver == pc = "done" \/ (pc = "raised" /\ ~current_file.fails)

SameAsIterBatches ==
    /\ pc = "done" => (~Reference.err /\ yielded = Reference.yielded)
    /\ pc = "raised" => Reference.err

NoFileSentinel == \A i \in 1..Len(files) : files[i].ends = {}

\* C27: with batch_size > 0 and the same incomplete flag, __call__ over a
\* finite sequence of files yields the same batches as iter_batches fed the
\* concatenation, in visiting order, of the items from_file yields for each
\* file, whether or not these hold the end-of-batch sentinel; accumulator and
\* count are carried across file boundaries.
C27_SameAsIterBatches == CallOver => SameAsIterBatches

\* What does hold: the same batches when no from_file yields the sentinel,
\* each fragment in at most one batch, in order.
C27_SameWithoutSentinel ==
    (CallOver /\ NoFileSentinel) =>
        /\ pc = "done"
        /\ SameAsIterBatches
        /\ LET all == Consumed(Len(files))
           IN  \E n \in 0..Len(all) :
                  /\ FlatIds(yielded) = SubSeq(all, 1, n)
                  /\ n = Len(all) \/ ~incomplete

\* --------------------------------------------------- claims, SpecIndexLive
\* The pointer of every label is a position of the pool of that label.
PointersInBounds ==
    /\ index_pc # "raised"
    /\ \A label \in 1..n_labels :
          /\ consumed[label] >= 0
          /\ consumed[label] < Len(shuffled_sequences[label])

\* C29: random_label_index never stalls: for every non-empty y, a y with a
\* single distinct label included, and every per_label >= 1, each next()
\* returns an index after finitely many steps (so any number of indices, here
\* MaxOut, is eventually delivered), and the pointer of every label always
\* stays within the bounds of the pool of that label.
C29_NeverStalls == []PointersInBounds /\ <>(Len(out) = MaxOut)

\* What does hold: the pointers stay within bounds, and with two distinct
\* labels or more every next() returns.
C29_InBounds == PointersInBounds
C29_TwoLabels == (n_labels >= 2) => <>(Len(out) = MaxOut)

\* With a single label every round after the first skips it: nothing is
\* yielded any more.
C29_SingleLabelStalls ==
    (n_labels = 1 /\ index_pc = "while" /\ out # <<>>) =>
        /\ Len(out) = (IF repeat THEN per_label ELSE Min(per_label, Len(y_)))
        /\ previous_label = 1
        /\ ENABLED IndexRound

\* ------------------------------------------------- claims, SpecThreadAgain
\* next() waits in queue_.get() on an empty queue that nothing will fill: the
\* thread has ended.
BlockedForGood ==
    /\ next_pc = "get_again"
    /\ queue_ = <<>>
    /\ run_pc \in {"finished", "crashed"}

\* C30: once a BackgroundGenerator has raised StopIteration it stays
\* exhausted: a later next() raises StopIteration too, it neither returns an
\* item nor blocks.
C30_StaysExhausted == next_pc # "returned" /\ ~BlockedForGood

\* What does hold for a generator that yields no item None: StopIteration
\* comes from the end marker, which is the last thing ever put, so the later
\* next() finds an empty queue and a thread that has ended.
C30_NothingLeft ==
    ((\A i \in 1..Len(bg_generator) : bg_generator[i] # None)
        /\ next_pc \in {"stopped", "get_again"}) =>
        /\ queue_ = <<>>
        /\ run_pc = "finished"
        /\ ~ENABLED NextGetAgain
====
